---------------------------- MODULE Spec2Model ----------------------------
(***************************************************************************)
(* Smart-contract deployment versioning service.                           *)
(*                                                                         *)
(* The repository holds three parallel implementations of the write flow:  *)
(*   "embedded"  createDeployment   (controllers/deploymentController.js   *)
(*               lines 1-237): the payload is stored in the record;        *)
(*   "ipfs"      createDeployment   (same file, lines 238-542): the        *)
(*               payload is uploaded to Pinata and the record holds the    *)
(*               content hash;                                             *)
(*   "paginated" DeploymentController.deployContract (unnamed/part_000).   *)
(* A running system is exactly one of them: Init picks the variant and no  *)
(* action changes it.                                                      *)
(*                                                                         *)
(* JavaScript strings are sequences of one-character strings, so that      *)
(* parsing and rendering of versions are computed, not assumed.            *)
(***************************************************************************)
EXTENDS Integers, Sequences, FiniteSets, TLC

VARIABLES
    variant,    \* which implementation is deployed
    store,      \* the deployments collection, in insertion order
    ipfs,       \* content hashes stored by pinFileToIPFS
    pinned,     \* content hashes pinned by pinByHash
    lastReq,    \* the most recent request: its body and how the collaborators behaved
    lastResp,   \* the response sent to it
    vmOp,       \* VersionManager harness: the function under test
    vmIn,       \* VersionManager harness: its arguments
    vmOut,      \* VersionManager harness: its result
    vmDone      \* VersionManager harness: whether the call has returned

vars ==
    <<variant, store, ipfs, pinned, lastReq, lastResp, vmOp, vmIn, vmOut, vmDone>>

sysVars == <<variant, store, ipfs, pinned, lastReq, lastResp>>
vmVars == <<vmOp, vmIn, vmOut, vmDone>>

-----------------------------------------------------------------------------
(* Bounds *)

\* largest version component drawn as an input of the version functions
MaxComp == 11
\* longest string enumerated exhaustively as an input of parseVersion
MaxLen == 5
\* most records the deployments collection holds
MaxRecords == 3
\* the longest array passed to getVersionStats
MaxStats == 3
\* most deployments completed where requests are followed await by await
MaxCompleted == 2
\* most records of a repository with a long history: enough for a patch
\* number of two digits
MaxHistory == 11

-----------------------------------------------------------------------------
(* JavaScript values *)

JStr(s) == [t |-> "string", s |-> s, n |-> 0, frac |-> FALSE, props |-> <<>>]
JNum(n) == [t |-> "number", s |-> <<>>, n |-> n, frac |-> FALSE, props |-> <<>>]
\* a number with a fractional part, n + 1/2
JHalf(n) == [t |-> "number", s |-> <<>>, n |-> n, frac |-> TRUE, props |-> <<>>]
JNull == [t |-> "null", s |-> <<>>, n |-> 0, frac |-> FALSE, props |-> <<>>]
JUndefined ==
    [t |-> "undefined", s |-> <<>>, n |-> 0, frac |-> FALSE, props |-> <<>>]
\* a String wrapper object: typeof gives 'object'
JObj(s) == [t |-> "object", s |-> s, n |-> 0, frac |-> FALSE, props |-> <<>>]
\* a plain object: its properties <<key, value>> in insertion order
JObject(props) ==
    [t |-> "object", s |-> <<>>, n |-> 0, frac |-> FALSE, props |-> props]
\* an array: typeof gives 'object', Array.isArray gives true
JArray(items) ==
    [t |-> "array", s |-> <<>>, n |-> 0, frac |-> FALSE, props |-> items]

\* ToBoolean: what `!v` negates
Truthy(v) ==
    CASE v.t = "string" -> Len(v.s) > 0
      [] v.t = "number" -> v.n # 0 \/ v.frac
      [] v.t \in {"object", "array"} -> TRUE
      [] OTHER -> FALSE

DigitChars == <<"0", "1", "2", "3", "4", "5", "6", "7", "8", "9">>

\* \d of a JavaScript regular expression: an ASCII digit
IsDigit(c) == \E i \in 1..10 : DigitChars[i] = c

DigitVal(c) == (CHOOSE i \in 1..10 : DigitChars[i] = c) - 1

RECURSIVE ParseIntAcc(_, _, _)
ParseIntAcc(s, i, acc) ==
    IF i > Len(s) \/ ~IsDigit(s[i]) THEN acc
    ELSE ParseIntAcc(s, i + 1, acc * 10 + DigitVal(s[i]))

\* parseInt(s, 10) on a string that starts with a digit
ParseInt(s) == ParseIntAcc(s, 1, 0)

RECURSIVE NumberToString(_)
\* `${n}` for a non-negative integer n
NumberToString(n) ==
    IF n < 10 THEN <<DigitChars[n + 1]>>
    ELSE NumberToString(n \div 10) \o <<DigitChars[(n % 10) + 1]>>

RECURSIVE DigitsEnd(_, _)
\* the position after the longest run of digits that starts at i
DigitsEnd(s, i) ==
    IF i > Len(s) \/ ~IsDigit(s[i]) THEN i ELSE DigitsEnd(s, i + 1)

\* a faulty pattern, /^(\d+)\.(\d+)\.(\d+)/ without the closing anchor: what
\* follows the third run of digits is not looked at
VERSION_REGEX_Unanchored(s) ==
    LET e1 == DigitsEnd(s, 1)
        e2 == DigitsEnd(s, e1 + 1)
        e3 == DigitsEnd(s, e2 + 1)
    IN  IF /\ e1 > 1
           /\ e1 <= Len(s)
           /\ s[e1] = "."
           /\ e2 > e1 + 1
           /\ e2 <= Len(s)
           /\ s[e2] = "."
           /\ e3 > e2 + 1
        THEN <<SubSeq(s, 1, e1 - 1), SubSeq(s, e1 + 1, e2 - 1),
               SubSeq(s, e2 + 1, e3 - 1)>>
        ELSE <<>>

\* s.match(/^(\d+)\.(\d+)\.(\d+)$/): the three groups, or <<>> for null
VERSION_REGEX(s) ==
    LET e1 == DigitsEnd(s, 1)
        e2 == DigitsEnd(s, e1 + 1)
        e3 == DigitsEnd(s, e2 + 1)
    IN  IF /\ e1 > 1
           /\ e1 <= Len(s)
           /\ s[e1] = "."
           /\ e2 > e1 + 1
           /\ e2 <= Len(s)
           /\ s[e2] = "."
           /\ e3 > e2 + 1
           /\ e3 = Len(s) + 1
        THEN <<SubSeq(s, 1, e1 - 1), SubSeq(s, e1 + 1, e2 - 1),
               SubSeq(s, e2 + 1, Len(s))>>
        ELSE <<>>

-----------------------------------------------------------------------------
(* VersionManager *)

\* a faulty baseline: the first release numbered 1.0.0
DEFAULT_VERSION_Release == <<"1", ".", "0", ".", "0">>

DEFAULT_VERSION == <<"0", ".", "1", ".", "0">>

\* a returned value, or a thrown Error with its message (a chain of parts)
Return(v) == [ok |-> TRUE, err |-> <<>>, val |-> v]
Throw(msg) == [ok |-> FALSE, err |-> msg, val |-> <<>>]

parseVersion(version) ==
    IF ~Truthy(version) \/ version.t # "string"
    THEN Throw(<<"Version must be a non-empty string">>)
    ELSE LET match == VERSION_REGEX(version.s)
         IN  IF match = <<>>
             THEN Throw(<<"Invalid version format">>)
             ELSE Return(<<ParseInt(match[1]), ParseInt(match[2]),
                           ParseInt(match[3])>>)

\* a faulty rendering: `${major}.${patch}.${minor}`
createVersion_Swapped(major, minor, patch) ==
    IF \E c \in {major, minor, patch} : c.t # "number" \/ c.frac
    THEN [ok |-> FALSE, err |-> <<"Version components must be integers">>,
          val |-> <<>>]
    ELSE IF major.n < 0 \/ minor.n < 0 \/ patch.n < 0
    THEN [ok |-> FALSE, err |-> <<"Version components cannot be negative">>,
          val |-> <<>>]
    ELSE [ok |-> TRUE, err |-> <<>>,
          val |-> NumberToString(major.n) \o <<".">> \o NumberToString(patch.n)
                  \o <<".">> \o NumberToString(minor.n)]

createVersion(major, minor, patch) ==
    IF \E c \in {major, minor, patch} : c.t # "number" \/ c.frac
    THEN Throw(<<"Version components must be integers">>)
    ELSE IF major.n < 0 \/ minor.n < 0 \/ patch.n < 0
    THEN Throw(<<"Version components cannot be negative">>)
    ELSE Return(NumberToString(major.n) \o <<".">> \o NumberToString(minor.n)
                \o <<".">> \o NumberToString(patch.n))

\* the order of the UTF-16 code units of "." and the digits
CodeUnit(c) == IF c = "." THEN 0 ELSE DigitVal(c) + 1

RECURSIVE StringOrder(_, _, _)
\* the sign of s < t, s > t on strings, from position i on
StringOrder(s, t, i) ==
    IF i > Len(s) /\ i > Len(t) THEN 0
    ELSE IF i > Len(s) THEN -1
    ELSE IF i > Len(t) THEN 1
    ELSE IF CodeUnit(s[i]) < CodeUnit(t[i]) THEN -1
    ELSE IF CodeUnit(s[i]) > CodeUnit(t[i]) THEN 1
    ELSE StringOrder(s, t, i + 1)

\* a faulty comparison: version1 > version2 on the strings themselves
compareVersions_AsStrings(version1, version2) ==
    LET v1 == parseVersion(version1)
        v2 == parseVersion(version2)
    IN  IF ~v1.ok THEN v1
        ELSE IF ~v2.ok THEN v2
        ELSE Return(StringOrder(version1.s, version2.s, 1))

compareVersions(version1, version2) ==
    LET v1 == parseVersion(version1)
        v2 == parseVersion(version2)
    IN  IF ~v1.ok THEN v1
        ELSE IF ~v2.ok THEN v2
        ELSE IF v1.val[1] # v2.val[1]
        THEN Return(IF v1.val[1] > v2.val[1] THEN 1 ELSE -1)
        ELSE IF v1.val[2] # v2.val[2]
        THEN Return(IF v1.val[2] > v2.val[2] THEN 1 ELSE -1)
        ELSE IF v1.val[3] # v2.val[3]
        THEN Return(IF v1.val[3] > v2.val[3] THEN 1 ELSE -1)
        ELSE Return(0)

\* a faulty patch increment: the patch number is written back unchanged
incrementPatch_Stale(currentVersion) ==
    LET p == parseVersion(currentVersion)
    IN  IF ~p.ok THEN p
        ELSE createVersion(JNum(p.val[1]), JNum(p.val[2]), JNum(p.val[3]))

incrementPatch(currentVersion) ==
    LET p == parseVersion(currentVersion)
    IN  IF ~p.ok THEN p
        ELSE createVersion(JNum(p.val[1]), JNum(p.val[2]), JNum(p.val[3] + 1))

\* a faulty minor increment: the patch number is not reset
incrementMinor_KeepPatch(currentVersion) ==
    LET p == parseVersion(currentVersion)
    IN  IF ~p.ok THEN p
        ELSE createVersion(JNum(p.val[1]), JNum(p.val[2] + 1), JNum(p.val[3]))

incrementMinor(currentVersion) ==
    LET p == parseVersion(currentVersion)
    IN  IF ~p.ok THEN p
        ELSE createVersion(JNum(p.val[1]), JNum(p.val[2] + 1), JNum(0))

incrementMajor(currentVersion) ==
    LET p == parseVersion(currentVersion)
    IN  IF ~p.ok THEN p
        ELSE createVersion(JNum(p.val[1] + 1), JNum(0), JNum(0))

\* options.incrementType is a string, or "undefined" when the option is absent
calculateNextVersion(currentVersion, incrementTypeOpt) ==
    LET incrementType ==
            IF incrementTypeOpt = "undefined" THEN "patch" ELSE incrementTypeOpt
        r == CASE incrementType = "major" -> incrementMajor(currentVersion)
               [] incrementType = "minor" -> incrementMinor(currentVersion)
               [] OTHER -> incrementPatch(currentVersion)
    IN  IF ~Truthy(currentVersion) THEN Return(DEFAULT_VERSION)
        ELSE IF r.ok THEN r
        ELSE Throw(<<"Failed to calculate next version">> \o r.err)


isValidVersion(version) ==
    IF ~Truthy(version) \/ version.t # "string" THEN FALSE
    ELSE parseVersion(version).ok

RECURSIVE InsertByStringOrder(_, _, _)
InsertByStringOrder(sorted, v, i) ==
    IF i > Len(sorted) \/ StringOrder(v.s, sorted[i].s, 1) < 0
    THEN SubSeq(sorted, 1, i - 1) \o <<v>> \o SubSeq(sorted, i, Len(sorted))
    ELSE InsertByStringOrder(sorted, v, i + 1)

RECURSIVE sortVersions_Default(_)
\* a faulty sort, validVersions.sort() without the comparator: the order of
\* the strings
sortVersions_Default(validVersions) ==
    IF validVersions = <<>> THEN <<>>
    ELSE InsertByStringOrder(
             sortVersions_Default(SubSeq(validVersions, 1, Len(validVersions) - 1)),
             validVersions[Len(validVersions)], 1)

RECURSIVE InsertByCompare(_, _, _)
\* v put behind every element that does not compare greater than it
InsertByCompare(sorted, v, i) ==
    IF i > Len(sorted) \/ compareVersions(v, sorted[i]).val < 0
    THEN SubSeq(sorted, 1, i - 1) \o <<v>> \o SubSeq(sorted, i, Len(sorted))
    ELSE InsertByCompare(sorted, v, i + 1)

RECURSIVE sortVersions(_)
\* validVersions.sort((a, b) => this.compareVersions(a, b)): Array.prototype
\* .sort is stable, so the result is the one of a stable insertion sort
sortVersions(validVersions) ==
    IF validVersions = <<>> THEN <<>>
    ELSE InsertByCompare(
             sortVersions(SubSeq(validVersions, 1, Len(validVersions) - 1)),
             validVersions[Len(validVersions)], 1)

NoStats ==
    [total |-> 0, latest |-> JNull, oldest |-> JNull, majorReleases |-> 0,
     minorReleases |-> 0, patchReleases |-> 0]

\* the statistics of the valid versions, given them sorted and parsed
StatsOf(validVersions, sortedVersions, parsed) ==
    [total |-> Len(validVersions),
     latest |-> sortedVersions[Len(sortedVersions)],
     oldest |-> sortedVersions[1],
     majorReleases |-> Cardinality({parsed[i][1] : i \in 1..Len(parsed)}),
     minorReleases |->
        Cardinality({NumberToString(parsed[i][1]) \o <<".">>
                        \o NumberToString(parsed[i][2]) : i \in 1..Len(parsed)}),
     patchReleases |-> Len(validVersions)]

\* sortedVersions.forEach(version => this.parseVersion(version))
ParsedOf(sortedVersions) ==
    [i \in 1..Len(sortedVersions) |-> parseVersion(sortedVersions[i]).val]

\* getVersionStats once the invalid entries are filtered out
StatsOfValid(validVersions, sortedVersions) ==
    IF Len(validVersions) = 0 THEN NoStats
    ELSE StatsOf(validVersions, sortedVersions, ParsedOf(sortedVersions))

\* versions is any value; the elements of an array are its props
getVersionStats(versions) ==
    IF versions.t # "array" \/ Len(versions.props) = 0 THEN NoStats
    ELSE StatsOfValid(SelectSeq(versions.props, isValidVersion),
                      sortVersions(SelectSeq(versions.props, isValidVersion)))

-----------------------------------------------------------------------------
(* Harness of the VersionManager functions: Init draws the arguments, one   *)
(* action per function under test applies it.                               *)

\* decimal notation, written out: the reference the results are compared with
Decimal ==
    <<  <<"0">>, <<"1">>, <<"2">>, <<"3">>, <<"4">>, <<"5">>, <<"6">>, <<"7">>,
        <<"8">>, <<"9">>, <<"1", "0">>, <<"1", "1">>, <<"1", "2">>,
        <<"1", "3">>, <<"1", "4">>, <<"1", "5">>, <<"1", "6">> >>

Dec(n) == Decimal[n + 1]

\* the canonical text of the version (m, n, p)
VersionText(t) == Dec(t[1]) \o <<".">> \o Dec(t[2]) \o <<".">> \o Dec(t[3])

Comps == 0..MaxComp
Triples == Comps \X Comps \X Comps

Alphabet == {"0", "1", ".", "-", "v"}
StringsUpTo(k) == UNION {[1..l -> Alphabet] : l \in 0..k}

\* strings beyond the exhaustive ones: near misses of MAJOR.MINOR.PATCH
OtherStrings ==
    { <<"1", "0", ".", "2", "0", ".", "3", "0">>,
      <<"0", "1", ".", "0", "0", "2", ".", "3">>,
      <<"1", ".", "2", ".", "3", ".", "4">>,
      <<"1", ".", "2", ".", "3", " ">>,
      <<" ", "1", ".", "2", ".", "3">>,
      <<"1", ".", "2", ".", "3", "\n">>,
      <<"+", "1", ".", "2", ".", "3">>,
      <<"1", ".", "2", ".", "3", "-", "r", "c">>,
      <<"1", ",", "2", ",", "3">>,
      <<"1", ".", " ", "2", ".", "3">>,
      <<"1", "e", "1", ".", "2", ".", "3">> }

NonStrings ==
    { JNull, JUndefined, JNum(0), JNum(123), JHalf(1),
      JObj(<<"1", ".", "2", ".", "3">>) }

ParseInputs ==
    {JStr(s) : s \in StringsUpTo(MaxLen) \cup OtherStrings} \cup NonStrings

IncrementTypes == {"patch", "minor", "major", "undefined", "bogus"}

\* current versions: every canonical version, and values that do not parse
NextInputs ==
    {[cur |-> JStr(VersionText(t)), t |-> t] : t \in Triples}
    \cup {[cur |-> v, t |-> <<>>] :
            v \in {JStr(s) : s \in OtherStrings \cup StringsUpTo(2)}
                  \cup NonStrings}

RenderInputs ==
    {<<JNum(t[1]), JNum(t[2]), JNum(t[3])>> : t \in Triples}
    \cup { <<JNum(-1), JNum(0), JNum(0)>>, <<JNum(0), JNum(0), JNum(-1)>>,
           <<JNum(0), JHalf(1), JNum(0)>>, <<JNum(0), JNum(1), JNull>>,
           <<JStr(<<"1">>), JNum(1), JNum(0)>> }

CmpComps == {0, 2, 10}
CmpTriples == CmpComps \X CmpComps \X CmpComps

\* well-formed versions with the triple each denotes, some with leading zeros
CompareInputs ==
    {[s |-> VersionText(t), t |-> t] : t \in CmpTriples}
    \cup { [s |-> <<"0", ".", "0", "2", ".", "0">>, t |-> <<0, 2, 0>>],
           [s |-> <<"0", "0", ".", "1", "0", ".", "0", "2">>, t |-> <<0, 10, 2>>] }

\* elements of the arrays passed to getVersionStats, with the triple each
\* denotes (<<>> when it does not parse)
StatsEntries ==
    { [cur |-> JStr(<<"0", ".", "1", ".", "0">>), t |-> <<0, 1, 0>>],
      [cur |-> JStr(<<"0", ".", "2", ".", "0">>), t |-> <<0, 2, 0>>],
      [cur |-> JStr(<<"0", ".", "1", "0", ".", "0">>), t |-> <<0, 10, 0>>],
      [cur |-> JStr(<<"1", ".", "0", ".", "0">>), t |-> <<1, 0, 0>>],
      [cur |-> JStr(<<"0", "0", ".", "1", ".", "0">>), t |-> <<0, 1, 0>>],
      [cur |-> JStr(<<"v", "1">>), t |-> <<>>],
      [cur |-> JNum(123), t |-> <<>>] }

StatsInputs == UNION {[1..l -> StatsEntries] : l \in 0..MaxStats}

VmIdle ==
    /\ vmOp = "idle"
    /\ vmIn = <<>>
    /\ vmOut = <<>>
    /\ vmDone = FALSE

VmInit ==
    /\ vmOut = <<>>
    /\ vmDone = FALSE
    /\ \/ vmOp = "parseVersion" /\ vmIn \in ParseInputs
       \/ vmOp = "createVersion" /\ vmIn \in RenderInputs
       \/ /\ vmOp = "compareVersions"
          /\ vmIn \in [a : CompareInputs, b : CompareInputs, c : CompareInputs]
       \/ /\ vmOp = "calculateNextVersion"
          /\ vmIn \in [arg : NextInputs, kind : IncrementTypes]
       \/ vmOp = "getVersionStats" /\ vmIn \in StatsInputs

CallParseVersion ==
    /\ vmOp = "parseVersion" /\ ~vmDone
    /\ vmOut' = parseVersion(vmIn)
    /\ vmDone' = TRUE
    /\ UNCHANGED <<vmOp, vmIn, sysVars>>

\* createVersion, and parseVersion of the string it returns
CallCreateVersion ==
    /\ vmOp = "createVersion" /\ ~vmDone
    /\ LET r == createVersion(vmIn[1], vmIn[2], vmIn[3])
       IN  vmOut' = [rendered |-> r,
                     parsed |-> IF r.ok THEN parseVersion(JStr(r.val)) ELSE r]
    /\ vmDone' = TRUE
    /\ UNCHANGED <<vmOp, vmIn, sysVars>>

CallCompareVersions ==
    /\ vmOp = "compareVersions" /\ ~vmDone
    /\ vmOut' = [ab |-> compareVersions(JStr(vmIn.a.s), JStr(vmIn.b.s)),
                 ba |-> compareVersions(JStr(vmIn.b.s), JStr(vmIn.a.s)),
                 bc |-> compareVersions(JStr(vmIn.b.s), JStr(vmIn.c.s)),
                 ac |-> compareVersions(JStr(vmIn.a.s), JStr(vmIn.c.s))]
    /\ vmDone' = TRUE
    /\ UNCHANGED <<vmOp, vmIn, sysVars>>

CallCalculateNextVersion ==
    /\ vmOp = "calculateNextVersion" /\ ~vmDone
    /\ vmOut' = calculateNextVersion(vmIn.arg.cur, vmIn.kind)
    /\ vmDone' = TRUE
    /\ UNCHANGED <<vmOp, vmIn, sysVars>>

CallGetVersionStats ==
    /\ vmOp = "getVersionStats" /\ ~vmDone
    /\ vmOut' = getVersionStats(JArray([i \in 1..Len(vmIn) |-> vmIn[i].cur]))
    /\ vmDone' = TRUE
    /\ UNCHANGED <<vmOp, vmIn, sysVars>>

SysIdle ==
    /\ variant = "none"
    /\ store = <<>>
    /\ ipfs = {}
    /\ pinned = {}
    /\ lastReq = [route |-> "", body |-> <<>>, env |-> <<>>]
    /\ lastResp = [status |-> 0, message |-> "",
                   data |-> [id |-> 0, walletAddress |-> <<>>,
                             contractRepoName |-> <<>>, version |-> <<>>,
                             codeChanged |-> FALSE]]

InitVersionManager == SysIdle /\ VmInit

NextVersionManager ==
    \/ CallParseVersion
    \/ CallCreateVersion
    \/ CallCompareVersions
    \/ CallCalculateNextVersion
    \/ CallGetVersionStats

SpecVersionManager == InitVersionManager /\ [][NextVersionManager]_vars

-----------------------------------------------------------------------------
(* Properties of the VersionManager functions (SpecVersionManager)          *)

DecimalDigits == {"0", "1", "2", "3", "4", "5", "6", "7", "8", "9"}

\* v is a string made of three non-empty runs of decimal digits separated by
\* two dots, and of nothing else
WellFormedVersion(v) ==
    /\ v.t = "string"
    /\ \E i, j \in 1..Len(v.s) :
          /\ 1 < i /\ i + 1 < j /\ j < Len(v.s)
          /\ v.s[i] = "." /\ v.s[j] = "."
          /\ \A k \in (1..Len(v.s)) \ {i, j} : v.s[k] \in DecimalDigits

\* the sign of the lexicographic comparison of two integer triples
LexSign(x, y) ==
    IF x = y THEN 0
    ELSE IF \E i \in 1..3 : x[i] < y[i] /\ \A j \in 1..(i - 1) : x[j] = y[j]
    THEN -1
    ELSE 1

NextCalled == vmOp = "calculateNextVersion" /\ vmDone

\* C6: for a well-formed current version (M, N, P), next with kind patch
\* returns M.N.(P+1), kind minor returns M.(N+1).0, kind major returns
\* (M+1).0.0, and with no kind given the result is that of patch; so
\* next("0.1.0", patch) = "0.1.1", next("0.1.9", minor) = "0.2.0" and
\* next("1.2.3", major) = "2.0.0".
C6_NextIncrements ==
    /\ (NextCalled /\ vmIn.arg.t # <<>> /\ vmIn.kind # "bogus") =>
          LET t == vmIn.arg.t
              expected ==
                  CASE vmIn.kind = "major" -> <<t[1] + 1, 0, 0>>
                    [] vmIn.kind = "minor" -> <<t[1], t[2] + 1, 0>>
                    [] OTHER -> <<t[1], t[2], t[3] + 1>>
          IN  vmOut = Return(VersionText(expected))
    /\ calculateNextVersion(JStr(<<"0", ".", "1", ".", "0">>), "patch")
          = Return(<<"0", ".", "1", ".", "1">>)
    /\ calculateNextVersion(JStr(<<"0", ".", "1", ".", "9">>), "minor")
          = Return(<<"0", ".", "2", ".", "0">>)
    /\ calculateNextVersion(JStr(<<"1", ".", "2", ".", "3">>), "major")
          = Return(<<"2", ".", "0", ".", "0">>)

\* C6 witness: next("0.1.9", minor) has returned "0.2.0"
C6_Witness ==
    /\ NextCalled
    /\ vmIn.arg.t = <<0, 1, 9>>
    /\ vmIn.kind = "minor"
    /\ vmOut.ok
    /\ vmOut.val = <<"0", ".", "2", ".", "0">>

\* C7: on well-formed versions compare returns the sign of the lexicographic
\* comparison of the integer triples (compare("0.2.0", "0.10.0") = -1), it
\* is antisymmetric, it is 0 only for equal triples, and it is transitive.
C7_CompareIsNumericOrder ==
    (vmOp = "compareVersions" /\ vmDone) =>
        /\ vmOut.ab.ok /\ vmOut.ba.ok /\ vmOut.bc.ok /\ vmOut.ac.ok
        /\ vmOut.ab.val = LexSign(vmIn.a.t, vmIn.b.t)
        /\ vmOut.ab.val = 0 - vmOut.ba.val
        /\ (vmOut.ab.val = 0) <=> (vmIn.a.t = vmIn.b.t)
        /\ (vmOut.ab.val < 0 /\ vmOut.bc.val < 0) => vmOut.ac.val < 0

\* C7 witness: compare("0.2.0", "0.10.0") has returned -1
C7_Witness ==
    /\ vmOp = "compareVersions" /\ vmDone
    /\ vmIn.a.s = <<"0", ".", "2", ".", "0">>
    /\ vmIn.b.s = <<"0", ".", "1", "0", ".", "0">>
    /\ vmOut.ab.val = -1

\* C8: for non-negative integers m, n, p render does not fail and parsing
\* the rendered string gives back exactly (m, n, p).
C8_RoundTrip ==
    (/\ vmOp = "createVersion" /\ vmDone
     /\ \A i \in 1..3 : vmIn[i].t = "number" /\ ~vmIn[i].frac /\ vmIn[i].n >= 0)
    => /\ vmOut.rendered.ok
       /\ vmOut.parsed = Return(<<vmIn[1].n, vmIn[2].n, vmIn[3].n>>)

\* C8 witness: (0, 10, 11) has been rendered and parsed back
C8_Witness ==
    /\ vmOp = "createVersion" /\ vmDone
    /\ vmIn = <<JNum(0), JNum(10), JNum(11)>>
    /\ vmOut.parsed.ok
    /\ vmOut.parsed.val = <<0, 10, 11>>

\* C9: parse succeeds exactly on the strings made of three non-negative
\* decimal integers separated by two dots and nothing else; on every other
\* input (the empty string and non-strings included) it fails with an
\* error and returns no components.
C9_ParseAcceptsExactlyWellFormed ==
    (vmOp = "parseVersion" /\ vmDone) =>
        /\ vmOut.ok <=> WellFormedVersion(vmIn)
        /\ ~vmOut.ok => (vmOut.val = <<>> /\ vmOut.err # <<>>)
        /\ vmOut.ok => Len(vmOut.val) = 3

\* C9 witness: parse has rejected "1.2.3.4"
C9_Witness ==
    /\ vmOp = "parseVersion" /\ vmDone
    /\ vmIn = JStr(<<"1", ".", "2", ".", "3", ".", "4">>)
    /\ ~vmOut.ok
    /\ vmOut.err = <<"Invalid version format">>

\* C10: next fails for every current value that is present (neither null
\* nor undefined) but does not parse as MAJOR.MINOR.PATCH, whatever the
\* kind; it never returns a version for such a value.
C10_NextRejectsUnparsable ==
    (/\ NextCalled
     /\ vmIn.arg.cur.t \notin {"null", "undefined"}
     /\ ~WellFormedVersion(vmIn.arg.cur))
    => ~vmOut.ok

\* the entries of the array that parse, in the order of the array
ParsingEntries == SelectSeq(vmIn, LAMBDA e : e.t # <<>>)

\* C11: stats ignores the entries that do not parse; when none remains (the
\* empty array included) it returns total 0, latest and oldest absent and
\* zero counts; otherwise total is the number of parsing entries, oldest
\* and latest are entries that are minimal and maximal in the numeric
\* order, and the two counts are the numbers of distinct majors and of
\* distinct (major, minor) pairs; stats(["0.1.0", "0.2.0", "1.0.0"]) has
\* total 3, oldest "0.1.0", latest "1.0.0" and 2 distinct majors.
C11_StatsOfParsingEntries ==
    /\ (vmOp = "getVersionStats" /\ vmDone) =>
          LET es == ParsingEntries
              idx == 1..Len(es)
          IN  /\ es = <<>> =>
                    /\ vmOut.total = 0
                    /\ vmOut.latest = JNull /\ vmOut.oldest = JNull
                    /\ vmOut.majorReleases = 0 /\ vmOut.minorReleases = 0
                    /\ vmOut.patchReleases = 0
              /\ es # <<>> =>
                    /\ vmOut.total = Len(es)
                    /\ \E i \in idx :
                          /\ vmOut.oldest = es[i].cur
                          /\ \A j \in idx : LexSign(es[i].t, es[j].t) <= 0
                    /\ \E i \in idx :
                          /\ vmOut.latest = es[i].cur
                          /\ \A j \in idx : LexSign(es[i].t, es[j].t) >= 0
                    /\ vmOut.majorReleases
                          = Cardinality({es[i].t[1] : i \in idx})
                    /\ vmOut.minorReleases
                          = Cardinality({<<es[i].t[1], es[i].t[2]>> : i \in idx})
    /\ (vmOp = "getVersionStats" /\ vmIn = <<>>) =>
          /\ getVersionStats(JArray(<<>>)) = NoStats
          /\ LET r == getVersionStats(
                          JArray(<< JStr(<<"0", ".", "1", ".", "0">>),
                                    JStr(<<"0", ".", "2", ".", "0">>),
                                    JStr(<<"1", ".", "0", ".", "0">>) >>))
             IN  /\ r.total = 3
                 /\ r.oldest = JStr(<<"0", ".", "1", ".", "0">>)
                 /\ r.latest = JStr(<<"1", ".", "0", ".", "0">>)
                 /\ r.majorReleases = 2

\* C11 witness: stats of an array holding "0.10.0", an entry that does not
\* parse and "0.2.0" has counted two versions, the latest being "0.10.0"
C11_Witness ==
    /\ vmOp = "getVersionStats" /\ vmDone
    /\ Len(vmIn) = 3
    /\ vmIn[1].t = <<0, 10, 0>> /\ vmIn[2].t = <<>> /\ vmIn[3].t = <<0, 2, 0>>
    /\ vmOut.total = 2
    /\ vmOut.latest = JStr(<<"0", ".", "1", "0", ".", "0">>)

-----------------------------------------------------------------------------
(* Strings of the request bodies *)

\* /^0x[a-fA-F0-9]{40}$/ : the number of hex characters
HexLen == 40
\* maxlength of contractRepoName in deploymentSchema
RepoMaxLen == 100

HexChars ==
    DecimalDigits \cup {"a", "b", "c", "d", "e", "f", "A", "B", "C", "D", "E", "F"}

LowerOf(c) ==
    CASE c = "A" -> "a" [] c = "B" -> "b" [] c = "C" -> "c"
      [] c = "D" -> "d" [] c = "E" -> "e" [] c = "F" -> "f"
      [] c = "X" -> "x" [] c = "R" -> "r"
      [] OTHER -> c

\* String.prototype.toLowerCase
toLowerCase(s) == [i \in 1..Len(s) |-> LowerOf(s[i])]

IsSpace(c) == c \in {" ", "\t", "\n"}

RECURSIVE trimStart(_)
trimStart(s) ==
    IF s # <<>> /\ IsSpace(Head(s)) THEN trimStart(Tail(s)) ELSE s

RECURSIVE trimEnd(_)
trimEnd(s) ==
    IF s # <<>> /\ IsSpace(s[Len(s)]) THEN trimEnd(SubSeq(s, 1, Len(s) - 1))
    ELSE s

\* String.prototype.trim
trim(s) == trimEnd(trimStart(s))

\* /^0x[a-fA-F0-9]{40}$/.test(s)
walletRegex(s) ==
    /\ Len(s) = HexLen + 2
    /\ s[1] = "0"
    /\ s[2] = "x"
    /\ \A i \in 3..Len(s) : s[i] \in HexChars

RECURSIVE StringifyProps(_, _)
StringifyProps(props, i) ==
    IF i > Len(props) THEN <<>>
    ELSE (IF i > 1 THEN <<",">> ELSE <<>>)
         \o <<"\"", props[i][1], "\"", ":", "\"", props[i][2], "\"">>
         \o StringifyProps(props, i + 1)

\* JSON.stringify of a contract code value: the properties in their own order
JSONstringify(v) ==
    CASE v.t = "object" -> <<"{">> \o StringifyProps(v.props, 1) \o <<"}">>
      [] v.t = "array" -> <<"[">> \o v.props \o <<"]">>
      [] v.t = "string" -> <<"\"">> \o v.s \o <<"\"">>
      [] OTHER -> <<"null">>

-----------------------------------------------------------------------------
(* The deployments collection *)

\* new Deployment({...}): the schema's setters (trim, lowercase) are applied
Deployment(walletAddress, contractRepoName, contractCode, contractCodeHash, version) ==
    [walletAddress |-> toLowerCase(trim(walletAddress)),
     contractRepoName |-> trim(contractRepoName),
     contractCode |-> contractCode,
     contractCodeHash |-> contractCodeHash,
     version |-> version]

\* the validators of deploymentSchema, run by save()
SchemaValid(doc) ==
    /\ doc.walletAddress # <<>>
    /\ walletRegex(doc.walletAddress)
    /\ doc.contractRepoName # <<>>
    /\ Len(doc.contractRepoName) >= 1
    /\ Len(doc.contractRepoName) <= RepoMaxLen
    /\ (variant # "ipfs") => doc.contractCode.t \in {"object", "array"}
    /\ VERSION_REGEX(doc.version) # <<>>

\* the records of one repository, oldest first (their positions in store)
RepoRecords(st, wallet, repo) ==
    {i \in 1..Len(st) :
        st[i].walletAddress = wallet /\ st[i].contractRepoName = repo}

Max(S) == CHOOSE x \in S : \A y \in S : y <= x

Min(S) == CHOOSE x \in S : \A y \in S : x <= y

\* a faulty query, sort({ deployedAt: 1 }): the position of the oldest record
OldestOf(st, wallet, repo) ==
    IF RepoRecords(st, wallet, repo) = {} THEN 0
    ELSE Min(RepoRecords(st, wallet, repo))

\* findOne(...).sort({ deployedAt: -1 }): the position of the latest record,
\* 0 when there is none. Records are kept in the order they were saved, so
\* a record's deployedAt grows with its position in the collection.
LatestOf(st, wallet, repo) ==
    IF RepoRecords(st, wallet, repo) = {} THEN 0
    ELSE Max(RepoRecords(st, wallet, repo))

\* a faulty query, findOne({ walletAddress }): the latest record of the
\* owner, whatever its repository
findLatestVersion_AnyRepo(st, walletAddress, contractRepoName) ==
    LET owned == {i \in 1..Len(st) : st[i].walletAddress = toLowerCase(walletAddress)}
    IN  IF owned = {} THEN JNull ELSE JStr(st[Max(owned)].version)

\* Deployment.findLatestVersion: the version of the latest record, or null
findLatestVersion(st, walletAddress, contractRepoName) ==
    LET i == LatestOf(st, toLowerCase(walletAddress), contractRepoName)
    IN  IF i = 0 THEN JNull ELSE JStr(st[i].version)

\* Deployment.findLatestByRepo: the position of the latest record of the
\* canonical identity (owner in lowercase, repository name trimmed), or 0
findLatestByRepo(st, walletAddress, contractRepoName) ==
    LatestOf(st, toLowerCase(walletAddress), trim(contractRepoName))

\* getNextVersion of the CommonJS controllers: next with the default kind
getNextVersion(currentVersion) ==
    calculateNextVersion(currentVersion, "undefined")

-----------------------------------------------------------------------------
(* Responses *)

NoData == [id |-> 0, walletAddress |-> <<>>, contractRepoName |-> <<>>,
           version |-> <<>>, codeChanged |-> FALSE]

Response(status, message) ==
    [status |-> status, message |-> message, data |-> NoData]

Created(message, st, codeChanged) ==
    [status |-> 201, message |-> message,
     data |-> [id |-> Len(st),
               walletAddress |-> st[Len(st)].walletAddress,
               contractRepoName |-> st[Len(st)].contractRepoName,
               version |-> st[Len(st)].version,
               codeChanged |-> codeChanged]]

NothingToCommit == Response(400, "nothing to commit, everything is up to date")

\* a handler ends: what it leaves in the collection and in the pinning
\* service, and the response it sends
Respond(st, stored, pins, resp) ==
    /\ store' = st
    /\ ipfs' = stored
    /\ pinned' = pins
    /\ lastResp' = resp

-----------------------------------------------------------------------------
(* The write flow, one handler per implementation.  body is req.body; env   *)
(* says which calls to the collaborators succeed during this request; seen  *)
(* is the collection as it was when the handler queried the latest record:  *)
(* the handler awaits between that query and save(), so seen is store, or   *)
(* store without the records other requests saved in between.               *)

\* a faulty save: the outcome of the insert is not awaited, the document
\* counts as saved
Save_NotAwaited(st, doc, env) ==
    IF ~SchemaValid(doc) THEN [ok |-> FALSE, name |-> "ValidationError", store |-> st]
    ELSE [ok |-> TRUE, name |-> "", store |-> Append(st, doc)]

\* a faulty save, an upsert keyed by the identity: the latest record of the
\* repository is overwritten
Save_Upsert(st, doc, env) ==
    IF ~SchemaValid(doc) THEN [ok |-> FALSE, name |-> "ValidationError", store |-> st]
    ELSE IF ~env.saveOk THEN [ok |-> FALSE, name |-> "MongoError", store |-> st]
    ELSE IF LatestOf(st, doc.walletAddress, doc.contractRepoName) = 0
    THEN [ok |-> TRUE, name |-> "", store |-> Append(st, doc)]
    ELSE [ok |-> TRUE, name |-> "",
          store |-> [st EXCEPT ![LatestOf(st, doc.walletAddress,
                                          doc.contractRepoName)] = doc]]

\* a faulty save, as under a unique index on owner, repository and version:
\* the insert of a second record with the same three is refused
Save_Unique(st, doc, env) ==
    IF ~SchemaValid(doc) THEN [ok |-> FALSE, name |-> "ValidationError", store |-> st]
    ELSE IF ~env.saveOk THEN [ok |-> FALSE, name |-> "MongoError", store |-> st]
    ELSE IF \E i \in RepoRecords(st, doc.walletAddress, doc.contractRepoName) :
               st[i].version = doc.version
    THEN [ok |-> FALSE, name |-> "MongoServerError", store |-> st]
    ELSE [ok |-> TRUE, name |-> "", store |-> Append(st, doc)]

\* deployment.save(): validation, then the insert
Save(st, doc, env) ==
    IF ~SchemaValid(doc) THEN [ok |-> FALSE, name |-> "ValidationError", store |-> st]
    ELSE IF ~env.saveOk THEN [ok |-> FALSE, name |-> "MongoError", store |-> st]
    ELSE [ok |-> TRUE, name |-> "", store |-> Append(st, doc)]

\* a faulty detector: with no previous code there is nothing to compare
hasContractCodeChanged_NoPrevious(oldCode, newCode) ==
    IF ~Truthy(oldCode) THEN FALSE
    ELSE IF ~Truthy(newCode) THEN TRUE
    ELSE JSONstringify(oldCode) # JSONstringify(newCode)

\* hasContractCodeChanged of the embedded controller: compares the JSON texts
hasContractCodeChanged(oldCode, newCode) ==
    IF ~Truthy(oldCode) /\ Truthy(newCode) THEN TRUE
    ELSE IF Truthy(oldCode) /\ ~Truthy(newCode) THEN TRUE
    ELSE IF ~Truthy(oldCode) /\ ~Truthy(newCode) THEN FALSE
    ELSE JSONstringify(oldCode) # JSONstringify(newCode)

\* hasContractCodeChanged of the IPFS controller: compares the hashes
hasContractCodeChanged_ipfs(oldHash, newHash) ==
    IF ~Truthy(oldHash) /\ Truthy(newHash) THEN TRUE
    ELSE IF Truthy(oldHash) /\ ~Truthy(newHash) THEN TRUE
    ELSE IF ~Truthy(oldHash) /\ ~Truthy(newHash) THEN FALSE
    ELSE oldHash # newHash

\* the CID Pinata returns for a file: a function of its bytes alone
IpfsHash(bytes) == JStr(<<"Qm">> \o bytes)

\* a faulty upload: the failure is swallowed and null returned for the hash
uploadContractCode_Swallowed(contractCode, env) ==
    IF env.uploadOk THEN Return(IpfsHash(JSONstringify(contractCode)))
    ELSE Return(JNull)

\* ipfsService.uploadContractCode: the hash, or a thrown error
uploadContractCode(contractCode, env) ==
    IF env.uploadOk THEN Return(IpfsHash(JSONstringify(contractCode)))
    ELSE Throw(<<"Failed to upload to Pinata IPFS">>)

\* a faulty pinContent: the catch block rethrows instead of returning false
pinContent_Rethrows(hash, env) ==
    IF env.pinOk THEN Return(TRUE) ELSE Throw(<<"Failed to pin content">>)

\* ipfsService.pinContent: resolves to true when pinned and to false
\* otherwise; its catch block lets no error out
pinContent(hash, env) == Return(env.pinOk)

\* createDeployment of the embedded controller
createDeployment(body, env, seen) ==
    LET walletAddress == body.walletAddress
        contractCode == body.contractCode
        contractRepoName == body.contractRepoName
        failed == Respond(store, ipfs, pinned,
                          Response(500, "Failed to create deployment"))
    IN  IF ~Truthy(walletAddress) \/ ~Truthy(contractCode) \/ ~Truthy(contractRepoName)
        THEN Respond(store, ipfs, pinned, Response(400,
                 "Missing required fields: walletAddress, contractCode, contractRepoName"))
        ELSE IF ~walletRegex(walletAddress.s)
        THEN Respond(store, ipfs, pinned,
                     Response(400, "Invalid Ethereum wallet address format"))
        ELSE \E latest \in {findLatestByRepo(seen, walletAddress.s, contractRepoName.s)} :
        IF latest # 0 /\ ~hasContractCodeChanged(seen[latest].contractCode, contractCode)
        THEN Respond(store, ipfs, pinned, NothingToCommit)
        ELSE \E nextVersion \in
                {getNextVersion(IF latest # 0 THEN JStr(seen[latest].version)
                                ELSE JNull)} :
        IF ~nextVersion.ok THEN failed
        ELSE \E saved \in
                {Save(store, Deployment(walletAddress.s, contractRepoName.s,
                                        contractCode, JUndefined, nextVersion.val),
                      env)} :
        IF ~saved.ok THEN failed
        ELSE Respond(saved.store, ipfs, pinned,
                 Created(IF latest # 0
                         THEN "Deployment created successfully with new version"
                         ELSE "Deployment created successfully (first version)",
                         saved.store, TRUE))

\* createDeployment of the IPFS controller
createDeployment_ipfs(body, env, seen) ==
    LET walletAddress == body.walletAddress
        contractCode == body.contractCode
        contractRepoName == body.contractRepoName
        failed == Response(500, "Failed to create deployment")
    IN  IF ~Truthy(walletAddress) \/ ~Truthy(contractCode) \/ ~Truthy(contractRepoName)
        THEN Respond(store, ipfs, pinned, Response(400,
                 "Missing required fields: walletAddress, contractCode, contractRepoName"))
        ELSE IF ~walletRegex(walletAddress.s)
        THEN Respond(store, ipfs, pinned,
                     Response(400, "Invalid Ethereum wallet address format"))
        ELSE IF contractCode.t \notin {"object", "array"}
        THEN Respond(store, ipfs, pinned,
                     Response(400, "Contract code must be a valid JSON object"))
        ELSE \E upload \in {uploadContractCode(contractCode, env)} :
        IF ~upload.ok THEN Respond(store, ipfs, pinned, failed)
        ELSE \E contractCodeHash \in {upload.val} :
             \E stored \in {ipfs \cup {contractCodeHash}} :
             \E pin \in {pinContent(contractCodeHash, env)} :
        IF ~pin.ok THEN Respond(store, stored, pinned, failed)
        ELSE \E pins \in {IF pin.val THEN pinned \cup {contractCodeHash}
                          ELSE pinned} :
             \E latest \in {findLatestByRepo(seen, walletAddress.s, contractRepoName.s)} :
        IF latest # 0
           /\ ~hasContractCodeChanged_ipfs(seen[latest].contractCodeHash,
                                           contractCodeHash)
        THEN Respond(store, stored, pins, NothingToCommit)
        ELSE \E nextVersion \in
                {getNextVersion(IF latest # 0 THEN JStr(seen[latest].version)
                                ELSE JNull)} :
        IF ~nextVersion.ok THEN Respond(store, stored, pins, failed)
        ELSE \E saved \in
                {Save(store, Deployment(walletAddress.s, contractRepoName.s,
                                        JUndefined, contractCodeHash, nextVersion.val),
                      env)} :
        IF ~saved.ok THEN Respond(store, stored, pins, failed)
        ELSE Respond(saved.store, stored, pins,
                 Created(IF latest # 0
                         THEN "Deployment created successfully with new version"
                         ELSE "Deployment created successfully (first version)",
                         saved.store, TRUE))

\* DeploymentController.deployContract
deployContract(body, env, seen) ==
    LET walletAddress == body.walletAddress
        contractCode == body.contractCode
        contractRepoName == body.contractRepoName
        failed == Respond(store, ipfs, pinned,
                          Response(500, "Failed to deploy contract"))
    IN  IF ~Truthy(walletAddress) \/ ~Truthy(contractCode) \/ ~Truthy(contractRepoName)
        THEN Respond(store, ipfs, pinned, Response(400, "Missing required fields"))
        ELSE IF ~walletRegex(walletAddress.s)
        THEN Respond(store, ipfs, pinned, Response(400, "Invalid wallet address format"))
        ELSE IF contractCode.t # "object"
        THEN Respond(store, ipfs, pinned,
                     Response(400, "Contract code must be a valid JSON object"))
        ELSE IF contractRepoName.t # "string" \/ Len(trim(contractRepoName.s)) = 0
        THEN Respond(store, ipfs, pinned,
                 Response(400, "Contract repository name must be a non-empty string"))
        ELSE \E normalizedWallet \in {toLowerCase(walletAddress.s)} :
             \E trimmedRepoName \in {trim(contractRepoName.s)} :
             \E latestVersion \in
                {findLatestVersion(seen, normalizedWallet, trimmedRepoName)} :
             \E nextVersion \in {calculateNextVersion(latestVersion, "undefined")} :
        IF ~nextVersion.ok THEN failed
        ELSE \E saved \in
                {Save(store, Deployment(normalizedWallet, trimmedRepoName,
                                        contractCode, JUndefined, nextVersion.val),
                      env)} :
        IF ~saved.ok /\ saved.name = "ValidationError"
        THEN Respond(store, ipfs, pinned, Response(400, "Validation failed"))
        ELSE IF ~saved.ok THEN failed
        ELSE Respond(saved.store, ipfs, pinned,
                     Created("Contract deployed successfully", saved.store, FALSE))

-----------------------------------------------------------------------------
(* The read flow: the history of one repository.  params is req.params,     *)
(* query is req.query; env says whether the IPFS gateway answers.           *)

\* the members of a set of positions, the largest first
Descending(S) ==
    [i \in 1..Cardinality(S) |->
        CHOOSE x \in S : Cardinality({y \in S : y > x}) = i - 1]

\* the members of a set of positions, the smallest first
Ascending(S) ==
    [i \in 1..Cardinality(S) |->
        CHOOSE x \in S : Cardinality({y \in S : y < x}) = i - 1]

\* a faulty query: the filter on the repository name is missing
findRepoHistory_AnyRepo(st, walletAddress, repo) ==
    Ascending({i \in 1..Len(st) : st[i].walletAddress = toLowerCase(walletAddress)})

\* a faulty query, sort({ deployedAt: -1 }): the newest record first
findRepoHistory_NewestFirst(st, walletAddress, repo) ==
    Descending(RepoRecords(st, toLowerCase(walletAddress), trim(repo)))

\* Deployment.findRepoHistory: the positions of the records of the canonical
\* identity (owner in lowercase, repository name trimmed), in chronological
\* order, as the pairwise change annotation reads them
findRepoHistory(st, walletAddress, repo) ==
    Ascending(RepoRecords(st, toLowerCase(walletAddress), trim(repo)))

\* a 200 response that carries data
Listed(message, data) == [status |-> 200, message |-> message, data |-> data]

\* getRepoDeploymentHistory of the embedded controller
getRepoDeploymentHistory(params) ==
    LET walletAddress == params.walletAddress
        repo == params.repo
    IN  IF ~Truthy(walletAddress) \/ ~Truthy(repo)
        THEN Respond(store, ipfs, pinned,
                 Response(400, "Wallet address and repository name are required"))
        ELSE \E deployments \in {findRepoHistory(store, walletAddress.s, repo.s)} :
        IF Len(deployments) = 0
        THEN Respond(store, ipfs, pinned,
                 Response(404, "No deployments found for the specified repository"))
        ELSE Respond(store, ipfs, pinned,
                 Listed("Deployment history retrieved successfully",
                     [deployments |->
                        [index \in 1..Len(deployments) |->
                            [id |-> deployments[index],
                             version |-> store[deployments[index]].version,
                             codeChanged |->
                                IF index > 1
                                THEN hasContractCodeChanged(
                                         store[deployments[index - 1]].contractCode,
                                         store[deployments[index]].contractCode)
                                ELSE TRUE]]]))

\* ipfsService.getContractCode: the text stored under the hash, or a thrown
\* error
getContractCode(hash, env) ==
    IF env.gatewayOk THEN Return(JStr(Tail(hash.s)))
    ELSE Throw(<<"Failed to retrieve from IPFS">>)

\* getRepoDeploymentHistory of the IPFS controller
getRepoDeploymentHistory_ipfs(params, query, env) ==
    LET walletAddress == params.walletAddress
        repo == params.repo
        excludeCode == query.excludeCode
    IN  IF ~Truthy(walletAddress) \/ ~Truthy(repo)
        THEN Respond(store, ipfs, pinned,
                 Response(400, "Wallet address and repository name are required"))
        ELSE \E deployments \in {findRepoHistory(store, walletAddress.s, repo.s)} :
        IF Len(deployments) = 0
        THEN Respond(store, ipfs, pinned,
                 Response(404, "No deployments found for the specified repository"))
        ELSE Respond(store, ipfs, pinned,
                 Listed("Deployment history retrieved successfully",
                     [deployments |->
                        [index \in 1..Len(deployments) |->
                            [id |-> deployments[index],
                             version |-> store[deployments[index]].version,
                             codeChanged |->
                                IF index > 1
                                THEN hasContractCodeChanged_ipfs(
                                         store[deployments[index - 1]].contractCodeHash,
                                         store[deployments[index]].contractCodeHash)
                                ELSE TRUE,
                             contractCode |->
                                IF excludeCode = JStr(<<"t", "r", "u", "e">>)
                                THEN JUndefined
                                ELSE getContractCode(
                                         store[deployments[index]].contractCodeHash,
                                         env).val,
                             contractCodeError |->
                                IF excludeCode = JStr(<<"t", "r", "u", "e">>)
                                   \/ getContractCode(
                                          store[deployments[index]].contractCodeHash,
                                          env).ok
                                THEN <<>>
                                ELSE <<"Failed to retrieve from IPFS">>]]]))

\* parseInt(v) || dflt for a query parameter: v is absent or a string.
\* parseInt reads an optional sign and the digits that follow; NaN and 0 are
\* falsy and give the default
ParseIntOr(v, dflt) ==
    IF v.t # "string" \/ Len(v.s) = 0 THEN dflt
    ELSE LET digits == IF v.s[1] \in {"-", "+"} THEN Tail(v.s) ELSE v.s
         IN  IF Len(digits) = 0 \/ ~IsDigit(digits[1]) THEN dflt
             ELSE IF ParseInt(digits) = 0 THEN dflt
             ELSE IF v.s[1] = "-" THEN 0 - ParseInt(digits)
             ELSE ParseInt(digits)

Abs(n) == IF n < 0 THEN 0 - n ELSE n

\* find(...).skip(offsetNum).limit(limitNum) on the documents found: the
\* server takes a negative limit for its absolute value
SkipLimit(found, offsetNum, limitNum) ==
    SubSeq(found, offsetNum + 1, Min({offsetNum + Abs(limitNum), Len(found)}))

\* DeploymentController.getDeploymentsByRepo
getDeploymentsByRepo(params, query) ==
    LET walletAddress == params.walletAddress
        repo == params.repo
        limit == IF query.limit = JUndefined THEN JStr(<<"5", "0">>) ELSE query.limit
        offset == IF query.offset = JUndefined THEN JStr(<<"0">>) ELSE query.offset
        includeCode == query.includeCode
    IN  IF ~walletRegex(walletAddress.s)
        THEN Respond(store, ipfs, pinned, Response(400, "Invalid wallet address format"))
        ELSE IF ~Truthy(repo) \/ Len(trim(repo.s)) = 0
        THEN Respond(store, ipfs, pinned,
                     Response(400, "Repository name cannot be empty"))
        ELSE \E limitNum \in {Min({ParseIntOr(limit, 50), 100})} :
             \E offsetNum \in {Max({ParseIntOr(offset, 0), 0})} :
             \E found \in
                {Descending(RepoRecords(store, toLowerCase(walletAddress.s),
                                        trim(repo.s)))} :
             \E totalCount \in {Len(found)} :
        IF totalCount = 0
        THEN Respond(store, ipfs, pinned,
                     Response(404, "No deployments found for this repository"))
        ELSE \E deployments \in {SkipLimit(found, offsetNum, limitNum)} :
             Respond(store, ipfs, pinned,
                 Listed("Repository deployments retrieved successfully",
                     [repository |-> trim(repo.s),
                      deployments |->
                        [index \in 1..Len(deployments) |->
                            [id |-> deployments[index],
                             version |-> store[deployments[index]].version,
                             contractCode |->
                                IF includeCode = JStr(<<"t", "r", "u", "e">>)
                                THEN store[deployments[index]].contractCode
                                ELSE JUndefined]],
                      pagination |->
                        [total |-> totalCount, limit |-> limitNum,
                         offset |-> offsetNum,
                         hasMore |-> totalCount > offsetNum + limitNum],
                      versionStats |->
                        getVersionStats(JArray(
                            [index \in 1..Len(deployments) |->
                                JStr(store[deployments[index]].version)]))]))

-----------------------------------------------------------------------------
(* The read flow: the deployments of one owner, one deployment, statistics  *)

\* a faulty query, sort({ deployedAt: 1 }): the oldest record first
findByWallet_OldestFirst(st, walletAddress) ==
    Ascending({i \in 1..Len(st) : st[i].walletAddress = toLowerCase(walletAddress)})

\* Deployment.findByWallet: the positions of the records of the owner (in
\* lowercase), newest first
findByWallet(st, walletAddress) ==
    Descending({i \in 1..Len(st) : st[i].walletAddress = toLowerCase(walletAddress)})

\* a > b of JavaScript where a is a string: the order of the strings, and
\* false when b is undefined (it converts to NaN)
Greater(a, b) ==
    IF b.t = "string" THEN StringOrder(a.s, b.s, 1) > 0 ELSE FALSE

\* the property version of an entry of latestByRepo: the entries are made
\* with the property latestVersion only
VersionOf(entry) == JUndefined

RECURSIVE latestByRepo(_, _, _, _)
\* deployments.forEach(dep => ...) from index i on: acc maps the repository
\* names met so far to their entries
latestByRepo(st, deployments, i, acc) ==
    IF i > Len(deployments) THEN acc
    ELSE LET dep == st[deployments[i]]
             repoName == dep.contractRepoName
         IN  IF repoName \notin DOMAIN acc
                \/ Greater(JStr(dep.version), VersionOf(acc[repoName]))
             THEN latestByRepo(st, deployments, i + 1,
                      [r \in DOMAIN acc \cup {repoName} |->
                          IF r = repoName
                          THEN [latestVersion |-> dep.version,
                                contractCodeHash |-> dep.contractCodeHash]
                          ELSE acc[r]])
             ELSE latestByRepo(st, deployments, i + 1, acc)

\* getDeploymentsByWallet of the embedded and of the IPFS controller: data
\* maps each repository name to its latest version (and, in the IPFS
\* controller, to the hash of that record)
getDeploymentsByWallet(params) ==
    LET walletAddress == params.walletAddress
    IN  IF ~Truthy(walletAddress)
        THEN Respond(store, ipfs, pinned, Response(400, "Wallet address is required"))
        ELSE \E deployments \in {findByWallet(store, walletAddress.s)} :
        IF Len(deployments) = 0
        THEN Respond(store, ipfs, pinned,
                 Listed("No deployments found",
                        [walletAddress |-> walletAddress.s, repos |-> <<>>]))
        ELSE \E latest \in {latestByRepo(store, deployments, 1, <<>>)} :
             Respond(store, ipfs, pinned,
                 Listed("Deployments retrieved successfully",
                     [walletAddress |-> walletAddress.s,
                      repos |->
                        [r \in DOMAIN latest |->
                            IF variant = "ipfs"
                            THEN [version |-> latest[r].latestVersion,
                                  ipfsHash |-> latest[r].contractCodeHash]
                            ELSE [version |-> latest[r].latestVersion,
                                  ipfsHash |-> JUndefined]]]))

\* Deployment.getDeploymentStats: one group per repository of the owner, the
\* group of the latest record first. deployedAt is the position in the
\* collection; $last takes the last document of the group as the collection
\* scan meets them, which is the order of insertion
getDeploymentStats(st, walletAddress) ==
    LET matched == {i \in 1..Len(st) : st[i].walletAddress = toLowerCase(walletAddress)}
        group(i) == {j \in matched : st[j].contractRepoName = st[i].contractRepoName}
        lasts == Descending({Max(group(i)) : i \in matched})
    IN  [g \in 1..Len(lasts) |->
            [_id |-> st[lasts[g]].contractRepoName,
             totalDeployments |-> Cardinality(group(lasts[g])),
             latestVersion |-> st[Max(group(lasts[g]))].version,
             firstDeployed |-> Min(group(lasts[g])),
             lastDeployed |-> Max(group(lasts[g]))]]

\* DeploymentController.getDeploymentsByWallet
getDeploymentsByWallet_paginated(params, query) ==
    LET walletAddress == params.walletAddress
        limit == IF query.limit = JUndefined THEN JStr(<<"5", "0">>) ELSE query.limit
        offset == IF query.offset = JUndefined THEN JStr(<<"0">>) ELSE query.offset
        sort == query.sort
    IN  IF ~walletRegex(walletAddress.s)
        THEN Respond(store, ipfs, pinned, Response(400, "Invalid wallet address format"))
        ELSE \E limitNum \in {Min({ParseIntOr(limit, 50), 100})} :
             \E offsetNum \in {Max({ParseIntOr(offset, 0), 0})} :
             \E normalizedWallet \in {toLowerCase(walletAddress.s)} :
             \E matched \in
                {{i \in 1..Len(store) : store[i].walletAddress = normalizedWallet}} :
             \E totalCount \in {Cardinality(matched)} :
             \E deployments \in
                {SkipLimit(IF sort = JStr(<<"a", "s", "c">>) THEN Ascending(matched)
                           ELSE Descending(matched),
                           offsetNum, limitNum)} :
             \E stats \in {getDeploymentStats(store, normalizedWallet)} :
             Respond(store, ipfs, pinned,
                 Listed("Deployments retrieved successfully",
                     [deployments |->
                        [index \in 1..Len(deployments) |->
                            [id |-> deployments[index],
                             contractRepoName |->
                                store[deployments[index]].contractRepoName,
                             version |-> store[deployments[index]].version]],
                      pagination |->
                        [total |-> totalCount, limit |-> limitNum,
                         offset |-> offsetNum,
                         hasMore |-> totalCount > offsetNum + limitNum],
                      statistics |->
                        [totalDeployments |-> totalCount,
                         uniqueRepositories |-> Len(stats),
                         repositories |-> stats]]))

\* the _id of the document at position i of the collection: 24 hexadecimal
\* characters
ObjectId(i) == [k \in 1..23 |-> "0"] \o <<DigitChars[i + 1]>>

\* id.match(/^[0-9a-fA-F]{24}$/)
objectIdRegex(s) == Len(s) = 24 /\ \A k \in 1..Len(s) : s[k] \in HexChars

\* DeploymentController.getDeploymentById
getDeploymentById(params) ==
    LET id == params.id
    IN  IF ~objectIdRegex(id.s)
        THEN Respond(store, ipfs, pinned, Response(400, "Invalid deployment ID format"))
        ELSE \E found \in {{i \in 1..Len(store) : ObjectId(i) = id.s}} :
        IF found = {}
        THEN Respond(store, ipfs, pinned, Response(404, "Deployment not found"))
        ELSE Respond(store, ipfs, pinned,
                 Listed("Deployment retrieved successfully",
                        [deployment |-> store[CHOOSE i \in found : TRUE]]))

\* DeploymentController.getWalletStats
getWalletStats(params) ==
    LET walletAddress == params.walletAddress
    IN  IF ~walletRegex(walletAddress.s)
        THEN Respond(store, ipfs, pinned, Response(400, "Invalid wallet address format"))
        ELSE \E normalizedWallet \in {toLowerCase(walletAddress.s)} :
             \E stats \in {getDeploymentStats(store, normalizedWallet)} :
             \E allDeployments \in
                {Ascending({i \in 1..Len(store) :
                               store[i].walletAddress = normalizedWallet})} :
             Respond(store, ipfs, pinned,
                 Listed("Wallet statistics retrieved successfully",
                     [walletAddress |-> normalizedWallet,
                      totalDeployments |-> Len(allDeployments),
                      uniqueRepositories |-> Len(stats),
                      repositories |-> stats,
                      versionStatistics |->
                        getVersionStats(JArray(
                            [index \in 1..Len(allDeployments) |->
                                JStr(store[allDeployments[index]].version)]))]))

-----------------------------------------------------------------------------
(* Requests *)

Address(c) == <<"0", "x">> \o [i \in 1..HexLen |-> c]

W1 == Address("a")
\* the same owner as W1, written with capital letters
W1Upper == Address("A")
W2 == Address("b")
\* one hex character short
WShort == <<"0", "x">> \o [i \in 1..(HexLen - 1) |-> "a"]

R1 == <<"r", "1">>
\* R1 with surrounding whitespace
R1Padded == <<" ", "r", "1", " ">>
R2 == <<"r", "2">>
RBlank == <<" ", " ">>
RLong == [i \in 1..(RepoMaxLen + 1) |-> "r"]

CodeA == JObject(<< <<"a", "1">>, <<"b", "2">> >>)
\* CodeA with its keys in the other order
CodeA2 == JObject(<< <<"b", "2">>, <<"a", "1">> >>)
CodeB == JObject(<< <<"a", "1">> >>)

Body(w, r, c) == [walletAddress |-> w, contractRepoName |-> r, contractCode |-> c]

\* two repositories of the same name under two owners; the first is also
\* addressed with the owner in capitals and with the name padded
ValidTargets == {<<W1, R1>>, <<W1Upper, R1Padded>>, <<W2, R1>>}

Codes == {CodeA, CodeB}

ValidBodies == {Body(JStr(t[1]), JStr(t[2]), c) : t \in ValidTargets, c \in Codes}

\* one body per way of being invalid
InvalidBodies ==
    { Body(JStr(WShort), JStr(R1), CodeA),
      Body(JStr(W1), JNull, CodeA),
      Body(JStr(W1), JStr(RBlank), CodeA),
      Body(JStr(W1), JStr(RLong), CodeA),
      Body(JStr(W1), JStr(R1), JArray(<<"1">>)),
      Body(JStr(W1), JStr(R1), JStr(<<"x">>)) }

Bodies == ValidBodies \cup InvalidBodies

NoFault == [uploadOk |-> TRUE, pinOk |-> TRUE, saveOk |-> TRUE]

SaveFails == [uploadOk |-> TRUE, pinOk |-> TRUE, saveOk |-> FALSE]
UploadFails == [uploadOk |-> FALSE, pinOk |-> TRUE, saveOk |-> TRUE]
PinFails == [uploadOk |-> TRUE, pinOk |-> FALSE, saveOk |-> TRUE]
PinAndSaveFail == [uploadOk |-> TRUE, pinOk |-> FALSE, saveOk |-> FALSE]

\* the collaborators a variant calls may each fail
Envs ==
    IF variant = "ipfs"
    THEN {NoFault, SaveFails, UploadFails, PinFails, PinAndSaveFail}
    ELSE {NoFault, SaveFails}

Variants == {"embedded", "ipfs", "paginated"}

\* no request is being served
NoRequest == [route |-> "", body |-> <<>>, env |-> <<>>]
NoResponse == Response(0, "")

\* POST /api/deploy with this body, under this behaviour of the collaborators.
\* Requests are served one after the other.
PostDeploy(body, env) ==
    /\ variant \in Variants
    /\ lastReq = NoRequest
    /\ CASE variant = "embedded" -> createDeployment(body, env, store)
         [] variant = "ipfs" -> createDeployment_ipfs(body, env, store)
         [] OTHER -> deployContract(body, env, store)
    /\ Len(store') <= MaxRecords
    /\ lastReq' = [route |-> "POST /api/deploy", body |-> body, env |-> env]
    /\ UNCHANGED <<variant, vmVars>>

Deploy == \E body \in Bodies, env \in Envs : PostDeploy(body, env)

\* the path parameters of the history route: the identities deployed to, one
\* that is never deployed to, a malformed owner and a blank repository name
\* (none holds a %, so decodeURIComponent leaves it as it is)
HistoryTargets ==
    ValidTargets \cup {<<W1, R2>>, <<WShort, R1>>, <<W1, RBlank>>}

Params(w, r) == [walletAddress |-> JStr(w), repo |-> JStr(r)]

Query(limit, offset, includeCode, excludeCode) ==
    [limit |-> limit, offset |-> offset, includeCode |-> includeCode,
     excludeCode |-> excludeCode]

NoQuery == Query(JUndefined, JUndefined, JUndefined, JUndefined)

JTrue == JStr(<<"t", "r", "u", "e">>)

\* the query strings a variant reads
Queries ==
    CASE variant = "ipfs" ->
            {NoQuery, Query(JUndefined, JUndefined, JUndefined, JTrue)}
      [] variant = "paginated" ->
            {NoQuery,
             Query(JStr(<<"1">>), JUndefined, JUndefined, JUndefined),
             Query(JUndefined, JStr(<<"1">>), JUndefined, JUndefined),
             Query(JStr(<<"1">>), JStr(<<"1">>), JTrue, JUndefined)}
      [] OTHER -> {NoQuery}

GatewayUp == [gatewayOk |-> TRUE]
GatewayDown == [gatewayOk |-> FALSE]

\* only the IPFS controller calls the gateway while listing
ReadEnvs == IF variant = "ipfs" THEN {GatewayUp, GatewayDown} ELSE {GatewayUp}

\* GET /api/deployments/:walletAddress/:repo
GetRepoHistory(params, query, env) ==
    /\ variant \in Variants
    /\ lastReq = NoRequest
    /\ CASE variant = "embedded" -> getRepoDeploymentHistory(params)
         [] variant = "ipfs" -> getRepoDeploymentHistory_ipfs(params, query, env)
         [] OTHER -> getDeploymentsByRepo(params, query)
    /\ lastReq' = [route |-> "GET /api/deployments/:walletAddress/:repo",
                   body |-> [params |-> params, query |-> query],
                   env |-> env]
    /\ UNCHANGED <<variant, vmVars>>

History ==
    \E t \in HistoryTargets, query \in Queries, env \in ReadEnvs :
        GetRepoHistory(Params(t[1], t[2]), query, env)

\* the owners listed: two that deploy, one in capitals, a malformed one
OwnerTargets == {W1, W1Upper, W2, WShort}

WalletQuery(limit, offset, sort) == [limit |-> limit, offset |-> offset, sort |-> sort]

NoWalletQuery == WalletQuery(JUndefined, JUndefined, JUndefined)

JAsc == JStr(<<"a", "s", "c">>)

\* the query strings of the owner's listing: only DeploymentController reads
\* them
WalletQueries ==
    IF variant = "paginated"
    THEN {NoWalletQuery, WalletQuery(JStr(<<"1">>), JStr(<<"1">>), JAsc)}
    ELSE {NoWalletQuery}

\* GET /api/deployments/:walletAddress
GetDeploymentsByWallet(params, query) ==
    /\ variant \in Variants
    /\ lastReq = NoRequest
    /\ IF variant = "paginated" THEN getDeploymentsByWallet_paginated(params, query)
       ELSE getDeploymentsByWallet(params)
    /\ lastReq' = [route |-> "GET /api/deployments/:walletAddress",
                   body |-> [params |-> params, query |-> query],
                   env |-> GatewayUp]
    /\ UNCHANGED <<variant, vmVars>>

Owner ==
    \E w \in OwnerTargets, query \in WalletQueries :
        GetDeploymentsByWallet([walletAddress |-> JStr(w)], query)

\* the ids asked for: those of the documents there can be, one more, and one
\* that is no ObjectId
IdTargets == {ObjectId(i) : i \in 1..(MaxRecords + 1)} \cup {<<"x">>}

\* GET /api/deployment/:id, a route of DeploymentController only
GetDeploymentById(params) ==
    /\ variant = "paginated"
    /\ lastReq = NoRequest
    /\ getDeploymentById(params)
    /\ lastReq' = [route |-> "GET /api/deployment/:id",
                   body |-> [params |-> params, query |-> NoWalletQuery],
                   env |-> GatewayUp]
    /\ UNCHANGED <<variant, vmVars>>

ById == \E id \in IdTargets : GetDeploymentById([id |-> JStr(id)])

\* GET /api/stats/:walletAddress, a route of DeploymentController only
GetWalletStats(params) ==
    /\ variant = "paginated"
    /\ lastReq = NoRequest
    /\ getWalletStats(params)
    /\ lastReq' = [route |-> "GET /api/stats/:walletAddress",
                   body |-> [params |-> params, query |-> NoWalletQuery],
                   env |-> GatewayUp]
    /\ UNCHANGED <<variant, vmVars>>

Stats == \E w \in OwnerTargets : GetWalletStats([walletAddress |-> JStr(w)])

\* deployment requests that overlap, all for one identity
RacingBodies == {Body(JStr(W1), JStr(R1), c) : c \in Codes}

\* POST /api/deploy served while other requests are: the handler read the
\* latest record when the collection was seen, a prefix of what it is when
\* the handler saves
PostDeployRacing(body, env, seen) ==
    /\ variant \in Variants
    /\ lastReq = NoRequest
    /\ CASE variant = "embedded" -> createDeployment(body, env, seen)
         [] variant = "ipfs" -> createDeployment_ipfs(body, env, seen)
         [] OTHER -> deployContract(body, env, seen)
    /\ Len(store') <= MaxRecords
    /\ lastReq' = [route |-> "POST /api/deploy", body |-> body, env |-> env,
                   seen |-> Len(seen)]
    /\ UNCHANGED <<variant, vmVars>>

DeployRacing ==
    \E body \in RacingBodies, k \in 0..Len(store) :
        PostDeployRacing(body, NoFault, SubSeq(store, 1, k))

ResponseSent ==
    /\ lastReq # NoRequest
    /\ lastReq' = NoRequest
    /\ lastResp' = NoResponse
    /\ UNCHANGED <<variant, store, ipfs, pinned, vmVars>>

Init ==
    /\ variant \in Variants
    /\ store = <<>>
    /\ ipfs = {}
    /\ pinned = {}
    /\ lastReq = NoRequest
    /\ lastResp = NoResponse
    /\ VmIdle

Next == Deploy \/ History \/ Owner \/ ById \/ Stats \/ ResponseSent

Spec == Init /\ [][Next]_vars

\* POST /api/deploy to a repository with a long history
PostDeployLong(body) ==
    /\ variant \in Variants
    /\ lastReq = NoRequest
    /\ CASE variant = "embedded" -> createDeployment(body, NoFault, store)
         [] variant = "ipfs" -> createDeployment_ipfs(body, NoFault, store)
         [] OTHER -> deployContract(body, NoFault, store)
    /\ Len(store') <= MaxHistory
    /\ lastReq' = [route |-> "POST /api/deploy", body |-> body, env |-> NoFault]
    /\ UNCHANGED <<variant, vmVars>>

DeployLong == \E body \in RacingBodies : PostDeployLong(body)

-----------------------------------------------------------------------------
(* One deployment request, await by await.  lastReq holds the request being *)
(* served, the position of its handler (phase), the positions it has been   *)
(* at (path), the responses it has sent and the handler's local variables.  *)

DeployRoute == "POST /api/deploy"

TerminalPhases == {"ValidationError", "Rejected", "Failed", "Completed"}

\* the collaborators of one request: each of the calls the handler awaits
\* returns or fails; at most one of them fails during a request
LifecycleEnvs ==
    {env \in [uploadOk : BOOLEAN, pinOk : BOOLEAN, saveOk : BOOLEAN, findOk : BOOLEAN] :
        /\ Cardinality({f \in {"uploadOk", "pinOk", "saveOk", "findOk"} : ~env[f]}) <= 1
        /\ variant # "ipfs" => env.uploadOk /\ env.pinOk}

LifecycleBodies ==
    RacingBodies \cup
    { Body(JStr(WShort), JStr(R1), CodeA),
      Body(JStr(W1), JStr(RLong), CodeA),
      Body(JStr(W1), JStr(R1), JArray(<<"1">>)) }

\* the handler moves on to a phase
Enter(req, phase) == [req EXCEPT !.phase = phase, !.path = Append(@, phase)]

\* the handler sends a response and returns
End(req, phase, resp) ==
    /\ lastReq' = [Enter(req, phase) EXCEPT !.responses = @ + 1]
    /\ lastResp' = resp

\* the handler is at this phase and has not returned
At(phase) == lastReq # NoRequest /\ lastReq.phase = phase

\* the catch block of the handlers
CatchAll ==
    IF variant = "paginated" THEN Response(500, "Failed to deploy contract")
    ELSE Response(500, "Failed to create deployment")

\* the request arrives; the handler is entered
Received(body, env) ==
    /\ lastReq = NoRequest
    /\ Len(store) < MaxCompleted
    /\ lastReq' = [route |-> DeployRoute, body |-> body, env |-> env,
                   phase |-> "Validating", path |-> <<"Validating">>,
                   responses |-> 0, contractCodeHash |-> JUndefined,
                   latest |-> 0, latestVersion |-> JNull, nextVersion |-> <<>>]
    /\ UNCHANGED <<variant, store, ipfs, pinned, lastResp, vmVars>>

Receive == \E body \in LifecycleBodies, env \in LifecycleEnvs : Received(body, env)

\* the checks on req.body: the response of the first that fails, or none
Validated(body) ==
    LET walletAddress == body.walletAddress
        contractCode == body.contractCode
        contractRepoName == body.contractRepoName
    IN  IF ~Truthy(walletAddress) \/ ~Truthy(contractCode) \/ ~Truthy(contractRepoName)
        THEN Response(400, IF variant = "paginated" THEN "Missing required fields"
                 ELSE "Missing required fields: walletAddress, contractCode, contractRepoName")
        ELSE IF ~walletRegex(walletAddress.s)
        THEN Response(400, IF variant = "paginated" THEN "Invalid wallet address format"
                           ELSE "Invalid Ethereum wallet address format")
        ELSE IF \/ variant = "ipfs" /\ contractCode.t \notin {"object", "array"}
                \/ variant = "paginated" /\ contractCode.t # "object"
        THEN Response(400, "Contract code must be a valid JSON object")
        ELSE IF /\ variant = "paginated"
                /\ (contractRepoName.t # "string" \/ Len(trim(contractRepoName.s)) = 0)
        THEN Response(400, "Contract repository name must be a non-empty string")
        ELSE NoResponse

Validate ==
    /\ At("Validating")
    /\ IF Validated(lastReq.body) # NoResponse
       THEN End(lastReq, "ValidationError", Validated(lastReq.body))
       ELSE /\ lastReq' = Enter(lastReq, IF variant = "ipfs" THEN "Uploading"
                                         ELSE "Fetching")
            /\ UNCHANGED lastResp
    /\ UNCHANGED <<variant, store, ipfs, pinned, vmVars>>

\* await ipfsService.uploadContractCode, await ipfsService.pinContent
Upload ==
    /\ At("Uploading")
    /\ \E upload \in {uploadContractCode(lastReq.body.contractCode, lastReq.env)} :
       IF ~upload.ok
       THEN End(lastReq, "Failed", CatchAll) /\ UNCHANGED <<ipfs, pinned>>
       ELSE /\ ipfs' = ipfs \cup {upload.val}
            /\ pinned' = IF pinContent(upload.val, lastReq.env).val
                         THEN pinned \cup {upload.val} ELSE pinned
            /\ lastReq' = [Enter(lastReq, "Fetching") EXCEPT
                               !.contractCodeHash = upload.val]
            /\ UNCHANGED lastResp
    /\ UNCHANGED <<variant, store, vmVars>>

\* await Deployment.findLatestByRepo, await Deployment.findLatestVersion
Fetch ==
    /\ At("Fetching")
    /\ IF ~lastReq.env.findOk THEN End(lastReq, "Failed", CatchAll)
       ELSE /\ lastReq' =
                 IF variant = "paginated"
                 THEN [Enter(lastReq, "Versioning") EXCEPT
                          !.latestVersion =
                              findLatestVersion(store,
                                  toLowerCase(lastReq.body.walletAddress.s),
                                  trim(lastReq.body.contractRepoName.s))]
                 ELSE [Enter(lastReq, "Detecting") EXCEPT
                          !.latest =
                              findLatestByRepo(store, lastReq.body.walletAddress.s,
                                               lastReq.body.contractRepoName.s)]
            /\ UNCHANGED lastResp
    /\ UNCHANGED <<variant, store, ipfs, pinned, vmVars>>

\* if (latestDeployment) { codeChanged = hasContractCodeChanged(...) ... }
Detect ==
    /\ At("Detecting")
    /\ IF /\ lastReq.latest # 0
          /\ IF variant = "ipfs"
             THEN ~hasContractCodeChanged_ipfs(
                       store[lastReq.latest].contractCodeHash,
                       lastReq.contractCodeHash)
             ELSE ~hasContractCodeChanged(store[lastReq.latest].contractCode,
                                          lastReq.body.contractCode)
       THEN End(lastReq, "Rejected", NothingToCommit)
       ELSE /\ lastReq' = [Enter(lastReq, "Versioning") EXCEPT
                              !.latestVersion =
                                  IF lastReq.latest # 0
                                  THEN JStr(store[lastReq.latest].version)
                                  ELSE JNull]
            /\ UNCHANGED lastResp
    /\ UNCHANGED <<variant, store, ipfs, pinned, vmVars>>

\* getNextVersion(...), VersionManager.calculateNextVersion(latestVersion)
Version ==
    /\ At("Versioning")
    /\ \E nextVersion \in
          {IF variant = "paginated"
           THEN calculateNextVersion(lastReq.latestVersion, "undefined")
           ELSE getNextVersion(lastReq.latestVersion)} :
       IF ~nextVersion.ok THEN End(lastReq, "Failed", CatchAll)
       ELSE /\ lastReq' = [Enter(lastReq, "Persisting") EXCEPT
                              !.nextVersion = nextVersion.val]
            /\ UNCHANGED lastResp
    /\ UNCHANGED <<variant, store, ipfs, pinned, vmVars>>

\* new Deployment({...})
NewDeployment(req) ==
    CASE variant = "embedded" ->
            Deployment(req.body.walletAddress.s, req.body.contractRepoName.s,
                       req.body.contractCode, JUndefined, req.nextVersion)
      [] variant = "ipfs" ->
            Deployment(req.body.walletAddress.s, req.body.contractRepoName.s,
                       JUndefined, req.contractCodeHash, req.nextVersion)
      [] OTHER ->
            Deployment(toLowerCase(req.body.walletAddress.s),
                       trim(req.body.contractRepoName.s),
                       req.body.contractCode, JUndefined, req.nextVersion)

\* await deployment.save(), res.status(201).json(...)
Persist ==
    /\ At("Persisting")
    /\ \E deployment \in {NewDeployment(lastReq)} :
       \E saved \in {Save(store, deployment, lastReq.env)} :
       IF ~saved.ok
       THEN /\ IF variant = "paginated" /\ saved.name = "ValidationError"
               THEN End(lastReq, "ValidationError", Response(400, "Validation failed"))
               ELSE End(lastReq, "Failed", CatchAll)
            /\ UNCHANGED store
       ELSE /\ store' = saved.store
            /\ End(lastReq, "Completed",
                   Created(CASE variant = "paginated" -> "Contract deployed successfully"
                             [] lastReq.latest # 0 ->
                                  "Deployment created successfully with new version"
                             [] OTHER ->
                                  "Deployment created successfully (first version)",
                           saved.store, variant # "paginated"))
    /\ UNCHANGED <<variant, ipfs, pinned, vmVars>>

\* what the handler does once the call it awaits has settled
HandlerStep == Validate \/ Upload \/ Fetch \/ Detect \/ Version \/ Persist

\* the handler has returned; the server is ready for the next request
Returned ==
    /\ lastReq # NoRequest
    /\ lastReq.phase \in TerminalPhases
    /\ lastReq' = NoRequest
    /\ lastResp' = NoResponse
    /\ UNCHANGED <<variant, store, ipfs, pinned, vmVars>>

NextLifecycle == Receive \/ HandlerStep \/ Returned

\* every call the handler awaits settles, and the event loop then resumes it
SpecLifecycle == Init /\ [][NextLifecycle]_vars /\ WF_vars(HandlerStep)

\* the owners and repositories of the requests that follow: one repository
\* name under two owners, and two repository names under one owner
IsolationTargets == {<<W1, R1>>, <<W2, R1>>, <<W1, R2>>}

IsolationBodies == {Body(JStr(t[1]), JStr(t[2]), c) : t \in IsolationTargets, c \in Codes}

\* POST /api/deploy, requests served one after the other, no fault
PostDeployIsolated(body) ==
    /\ variant \in Variants
    /\ lastReq = NoRequest
    /\ CASE variant = "embedded" -> createDeployment(body, NoFault, store)
         [] variant = "ipfs" -> createDeployment_ipfs(body, NoFault, store)
         [] OTHER -> deployContract(body, NoFault, store)
    /\ Len(store') <= MaxRecords + 1
    /\ lastReq' = [route |-> "POST /api/deploy", body |-> body, env |-> NoFault]
    /\ UNCHANGED <<variant, vmVars>>

DeployIsolated == \E body \in IsolationBodies : PostDeployIsolated(body)

\* the server with several owners and repositories deployed to
NextIsolation == DeployIsolated \/ ResponseSent

SpecIsolation == Init /\ [][NextIsolation]_vars

\* the server with one repository deployed to many times
NextLongHistory == DeployLong \/ Owner \/ ResponseSent

SpecLongHistory == Init /\ [][NextLongHistory]_vars

\* values of the limit and offset query parameters: absent, in range, zero,
\* negative, beyond the maximum, not a number
LimitValues ==
    {JUndefined, JStr(<<"1">>), JStr(<<"2">>), JStr(<<"0">>), JStr(<<"-", "1">>),
     JStr(<<"1", "0", "1">>), JStr(<<"v">>)}

OffsetValues ==
    {JUndefined, JStr(<<"1">>), JStr(<<"2">>), JStr(<<"-", "1">>), JStr(<<"v">>)}

\* the two paginated listings of DeploymentController, with every limit and
\* offset
Paginate ==
    \E limit \in LimitValues, offset \in OffsetValues :
        /\ variant = "paginated"
        /\ \/ GetDeploymentsByWallet([walletAddress |-> JStr(W1)],
                                     WalletQuery(limit, offset, JUndefined))
           \/ GetRepoHistory(Params(W1, R1),
                             Query(limit, offset, JUndefined, JUndefined),
                             GatewayUp)

\* the server with deployments to one repository and paginated listings
NextPagination == DeployRacing \/ Paginate \/ ResponseSent

SpecPagination == Init /\ [][NextPagination]_vars

\* the same server with overlapping deployment requests
NextRace == DeployRacing \/ History \/ ResponseSent

SpecRace == Init /\ [][NextRace]_vars

-----------------------------------------------------------------------------
(* Harness of the two change detectors: Init draws the operands, one action *)
(* per detector applies it.                                                  *)

\* payloads: objects (two of them equal up to the order of their keys), the
\* empty object, arrays
Payloads ==
    {CodeA, CodeA2, CodeB, JObject(<<>>), JArray(<<>>), JArray(<<"1">>)}

\* content hashes of payloads
Hashes == {IpfsHash(JSONstringify(c)) : c \in {CodeA, CodeA2, CodeB, JObject(<<>>)}}

Absent == {JNull, JUndefined}

InitChangeDetector ==
    /\ variant = "none"
    /\ store = <<>>
    /\ ipfs = {}
    /\ pinned = {}
    /\ lastReq = NoRequest
    /\ lastResp = NoResponse
    /\ vmOut = <<>>
    /\ vmDone = FALSE
    /\ \/ /\ vmOp = "hasContractCodeChanged"
          /\ vmIn \in [old : Payloads \cup Absent, new : Payloads \cup Absent]
       \/ /\ vmOp = "hasContractCodeChanged_ipfs"
          /\ vmIn \in [old : Hashes \cup Absent, new : Hashes \cup Absent]

CallHasContractCodeChanged ==
    /\ vmOp = "hasContractCodeChanged" /\ ~vmDone
    /\ vmOut' = hasContractCodeChanged(vmIn.old, vmIn.new)
    /\ vmDone' = TRUE
    /\ UNCHANGED <<vmOp, vmIn, sysVars>>

CallHasContractCodeChanged_ipfs ==
    /\ vmOp = "hasContractCodeChanged_ipfs" /\ ~vmDone
    /\ vmOut' = hasContractCodeChanged_ipfs(vmIn.old, vmIn.new)
    /\ vmDone' = TRUE
    /\ UNCHANGED <<vmOp, vmIn, sysVars>>

NextChangeDetector == CallHasContractCodeChanged \/ CallHasContractCodeChanged_ipfs

SpecChangeDetector == InitChangeDetector /\ [][NextChangeDetector]_vars

DetectorCalled ==
    vmOp \in {"hasContractCodeChanged", "hasContractCodeChanged_ipfs"} /\ vmDone

\* C12: with an absent previous and a present candidate the detector says
\* changed, with a present previous and an absent candidate it says
\* changed, with both absent it says unchanged; so do both detectors, the
\* one of embedded payloads and the one of content hashes.
C12_ChangedOnAbsentOperands ==
    DetectorCalled =>
        /\ (vmIn.old \in Absent /\ vmIn.new \notin Absent) => vmOut = TRUE
        /\ (vmIn.old \notin Absent /\ vmIn.new \in Absent) => vmOut = TRUE
        /\ (vmIn.old \in Absent /\ vmIn.new \in Absent) => vmOut = FALSE

\* C12 witness: with no previous payload and the empty object as candidate
\* the embedded detector has answered changed
C12_Witness ==
    /\ vmOp = "hasContractCodeChanged" /\ vmDone
    /\ vmIn.old = JNull
    /\ vmIn.new = JObject(<<>>)
    /\ vmOut = TRUE

\* the properties of an object as a set, the elements of an array in order
Structure(v) ==
    IF v.t = "object" THEN {v.props[i] : i \in 1..Len(v.props)} ELSE v.props

\* C13: for two present embedded payloads the detector says unchanged
\* exactly when they are structurally equal; two objects with the same keys
\* and values in a different key order compare as unchanged.
C13_KeyOrderInsensitive ==
    (/\ vmOp = "hasContractCodeChanged" /\ vmDone
     /\ vmIn.old \notin Absent /\ vmIn.new \notin Absent)
    => ((vmOut = FALSE)
          <=> (vmIn.old.t = vmIn.new.t /\ Structure(vmIn.old) = Structure(vmIn.new)))

-----------------------------------------------------------------------------
(* Properties of the write flow (Spec)                                      *)

\* the identities the requests address: (owner in lowercase, trimmed name)
Identities == {<<W1, R1>>, <<W2, R1>>}

\* the records of an identity, oldest first
RecordsOf(st, id) ==
    SelectSeq(st, LAMBDA r : r.walletAddress = id[1] /\ r.contractRepoName = id[2])

\* what a record keeps of its payload
Fingerprint(r) == IF variant = "ipfs" THEN r.contractCodeHash ELSE r.contractCode

\* what a record made of this payload would keep of it
FingerprintOf(code) ==
    IF variant = "ipfs" THEN IpfsHash(JSONstringify(code)) ELSE code

Baseline == <<"0", ".", "1", ".", "0">>

\* the versions a short history runs through
HistoryTriples == {<<0, 1, p>> : p \in 0..(MaxRecords + 1)}

\* the triple a version text denotes, <<>> when it is none of the above
TripleOf(v) ==
    IF \E t \in HistoryTriples : VersionText(t) = v
    THEN CHOOSE t \in HistoryTriples : VersionText(t) = v
    ELSE <<>>

\* a deployment request with well-formed fields was just served, and no
\* collaborator failed during it
ServedValid(req) ==
    /\ req.route = "POST /api/deploy"
    /\ req.body \in ValidBodies
    /\ req.env = NoFault

IdentityOf(body) ==
    <<toLowerCase(body.walletAddress.s), trim(body.contractRepoName.s)>>

\* C1: for a new identity the first submission succeeds with version
\* "0.1.0"; submitting the same payload again right after is rejected with
\* "nothing to commit", creates no record and leaves the identity with
\* exactly one record.
C1_SamePayloadTwice ==
    [][ServedValid(lastReq') =>
          LET id == IdentityOf(lastReq'.body)
              before == RecordsOf(store, id)
              after == RecordsOf(store', id)
          IN  /\ before = <<>> =>
                    /\ lastResp'.status = 201
                    /\ lastResp'.data.version = Baseline
                    /\ Len(after) = 1
              /\ (/\ Len(before) = 1
                  /\ Fingerprint(before[1]) = FingerprintOf(lastReq'.body.contractCode))
                 => /\ lastResp' = NothingToCommit
                    /\ store' = store
                    /\ Len(after) = 1
       ]_vars

\* C2: payload A, then B (different from A), then A again, for one
\* identity: the third submission is accepted, and the identity then has
\* exactly three records, with versions 0.1.0, 0.1.1 and 0.1.2 in that
\* order; the candidate is compared with the latest record only.
C2_ThirdSubmissionOfABA ==
    [][ServedValid(lastReq') =>
          LET id == IdentityOf(lastReq'.body)
              before == RecordsOf(store, id)
              after == RecordsOf(store', id)
              candidate == FingerprintOf(lastReq'.body.contractCode)
          IN  (/\ Len(before) = 2
               /\ Fingerprint(before[1]) = candidate
               /\ Fingerprint(before[2]) # candidate)
              => /\ lastResp'.status = 201
                 /\ Len(after) = 3
                 /\ after[1].version = <<"0", ".", "1", ".", "0">>
                 /\ after[2].version = <<"0", ".", "1", ".", "1">>
                 /\ after[3].version = <<"0", ".", "1", ".", "2">>
                 /\ Fingerprint(after[3]) = candidate
                 /\ lastResp'.data.version = after[3].version
       ]_vars

\* C2 witness: A, B, A is in the store as 0.1.0, 0.1.1, 0.1.2 and the last
\* request, carrying A, was answered 201
C2_Witness ==
    /\ ServedValid(lastReq)
    /\ lastResp.status = 201
    /\ variant # "paginated"
    /\ LET recs == RecordsOf(store, IdentityOf(lastReq.body))
       IN  /\ Len(recs) = 3
           /\ Fingerprint(recs[1]) = Fingerprint(recs[3])
           /\ Fingerprint(recs[1]) # Fingerprint(recs[2])
           /\ recs[3].version = <<"0", ".", "1", ".", "2">>

\* C3: for every identity the versions of its records, in chronological
\* order, are strictly increasing in the numeric order of (major, minor,
\* patch), each being exactly one patch increment above its predecessor;
\* an accepted request is answered with the version of the record it made.
C3_VersionsIncreaseByOnePatch ==
    /\ \A id \in Identities :
          LET recs == RecordsOf(store, id)
          IN  \A k \in 2..Len(recs) :
                 LET prev == TripleOf(recs[k - 1].version)
                     this == TripleOf(recs[k].version)
                 IN  /\ prev # <<>> /\ this # <<>>
                     /\ this = <<prev[1], prev[2], prev[3] + 1>>
                     /\ LexSign(prev, this) = -1
    /\ lastResp.status = 201 =>
          LET recs == RecordsOf(store, IdentityOf(lastReq.body))
          IN  recs # <<>> /\ lastResp.data.version = recs[Len(recs)].version

\* C3 witness: an identity has three records, the last one just created
C3_Witness ==
    /\ lastResp.status = 201
    /\ LET recs == RecordsOf(store, IdentityOf(lastReq.body))
       IN  /\ Len(recs) = 3
           /\ recs[2].version = <<"0", ".", "1", ".", "1">>
           /\ recs[3].version = <<"0", ".", "1", ".", "2">>

\* C4: no two chronologically adjacent records of one identity have the
\* same payload fingerprint.
C4_NoAdjacentDuplicates ==
    \A id \in Identities :
        LET recs == RecordsOf(store, id)
        IN  \A k \in 2..Len(recs) : Fingerprint(recs[k - 1]) # Fingerprint(recs[k])

\* C5: next(absent, kind) is the baseline "0.1.0" for every kind; the write
\* flow passes an absent current version exactly when the identity has no
\* record, so the first record of every identity has version "0.1.0" and no
\* later one has.
C5_FirstVersionIsBaseline ==
    /\ [](/\ \A kind \in IncrementTypes, absent \in {JNull, JUndefined} :
                calculateNextVersion(absent, kind) = Return(Baseline)
          /\ \A id \in Identities :
                LET recs == RecordsOf(store, id)
                IN  /\ recs # <<>> => recs[1].version = Baseline
                    /\ (findLatestVersion(store, id[1], id[2]) = JNull)
                          <=> (recs = <<>>)
                    /\ (findLatestByRepo(store, id[1], id[2]) = 0)
                          <=> (recs = <<>>))
    /\ [][(lastReq'.route = "POST /api/deploy" /\ lastResp'.status = 201) =>
             ((lastResp'.data.version = Baseline)
                <=> (RecordsOf(store, IdentityOf(lastReq'.body)) = <<>>))
         ]_vars

\* C5 witness: the first record of a second identity was just created, as
\* 0.1.0, while another identity already has a later version
C5_Witness ==
    /\ lastResp.status = 201
    /\ lastResp.data.version = Baseline
    /\ Len(RecordsOf(store, IdentityOf(lastReq.body))) = 1
    /\ \E i \in 1..Len(store) : store[i].version = <<"0", ".", "1", ".", "1">>

\* the identity fields of a body break the constraints on identities: a
\* field is missing, the owner is not 0x and 40 hex characters, or the
\* repository name is empty after trimming or longer than 100 characters
IdentityViolation(body) ==
    \/ body.walletAddress.t # "string"
    \/ body.contractRepoName.t # "string"
    \/ Len(body.walletAddress.s) # HexLen + 2
    \/ SubSeq(body.walletAddress.s, 1, 2) # <<"0", "x">>
    \/ \E i \in 3..Len(body.walletAddress.s) : body.walletAddress.s[i] \notin HexChars
    \/ Len(trim(body.contractRepoName.s)) = 0
    \/ Len(trim(body.contractRepoName.s)) > RepoMaxLen

\* C14: a submission whose identity breaks the constraints ends in a
\* client-error response and has no side effect: no record is created and
\* no payload is stored or pinned.
C14_InvalidIdentityNoSideEffects ==
    [][(/\ lastReq'.route = "POST /api/deploy"
        /\ lastReq'.env = NoFault
        /\ IdentityViolation(lastReq'.body))
       => /\ lastResp'.status \in 400..499
          /\ store' = store
          /\ ipfs' = ipfs
          /\ pinned' = pinned
      ]_vars

\* C15: a submission rejected as no-change leaves the collection and the
\* pinning service (content stored, content pinned) as they were; its
\* response, "nothing to commit, everything is up to date", is sent only
\* when the candidate equals the latest record of the identity, never for a
\* validation or storage failure.
C15_RejectionHasNoSideEffects ==
    [][(/\ lastReq'.route = "POST /api/deploy"
        /\ lastResp'.message = "nothing to commit, everything is up to date")
       => /\ store' = store
          /\ ipfs' = ipfs
          /\ pinned' = pinned
          /\ lastResp'.status = 400
          /\ ~IdentityViolation(lastReq'.body)
          /\ LET recs == RecordsOf(store, IdentityOf(lastReq'.body))
             IN  /\ recs # <<>>
                 /\ Fingerprint(recs[Len(recs)])
                       = FingerprintOf(lastReq'.body.contractCode)
      ]_vars

\* the body passes the checks the IPFS handler makes before the upload
ReachesUpload(body) ==
    /\ body.walletAddress.t = "string"
    /\ Len(body.walletAddress.s) = HexLen + 2
    /\ SubSeq(body.walletAddress.s, 1, 2) = <<"0", "x">>
    /\ \A i \in 3..Len(body.walletAddress.s) : body.walletAddress.s[i] \in HexChars
    /\ body.contractRepoName.t = "string" /\ body.contractRepoName.s # <<>>
    /\ body.contractCode.t \in {"object", "array"}

\* C16: in the content-addressed implementation the payload is stored
\* before the change detection; when storing it fails the request ends in
\* a failure (not a rejection, even for the payload of the latest record),
\* no record is created and nothing else changes, so the version the failed
\* request would have received is still the next one.
C16_UploadFailureCreatesNothing ==
    [][(/\ variant = "ipfs"
        /\ lastReq'.route = "POST /api/deploy"
        /\ ReachesUpload(lastReq'.body)
        /\ ~lastReq'.env.uploadOk)
       => /\ lastResp'.status = 500
          /\ lastResp'.message = "Failed to create deployment"
          /\ store' = store
          /\ ipfs' = ipfs
          /\ pinned' = pinned
      ]_vars

\* C16 witness: the upload of the payload of the latest record has failed,
\* and the request was answered with a failure
C16_Witness ==
    /\ variant = "ipfs"
    /\ lastReq.route = "POST /api/deploy"
    /\ lastReq.body \in ValidBodies
    /\ ~lastReq.env.uploadOk
    /\ lastResp.status = 500
    /\ LET recs == RecordsOf(store, IdentityOf(lastReq.body))
       IN  /\ recs # <<>>
           /\ Fingerprint(recs[Len(recs)]) = FingerprintOf(lastReq.body.contractCode)

\* the version after the latest record of recs, the baseline when recs is
\* empty
VersionAfter(recs) ==
    IF recs = <<>> THEN Baseline
    ELSE LET t == TripleOf(recs[Len(recs)].version)
         IN  VersionText(<<t[1], t[2], t[3] + 1>>)

\* how a request of the content-addressed implementation ends once its
\* payload is stored: a function of the collection, the body and the fate
\* of the insert, in which the fate of the pin does not occur
OutcomeAfterUpload(st, body, saveOk) ==
    LET id == IdentityOf(body)
        recs == RecordsOf(st, id)
        hash == FingerprintOf(body.contractCode)
    IN  IF recs # <<>> /\ Fingerprint(recs[Len(recs)]) = hash
        THEN [status |-> 400, store |-> st]
        ELSE IF IdentityViolation(body) \/ ~saveOk
        THEN [status |-> 500, store |-> st]
        ELSE [status |-> 201,
              store |-> Append(st, [walletAddress |-> id[1],
                                    contractRepoName |-> id[2],
                                    contractCode |-> JUndefined,
                                    contractCodeHash |-> hash,
                                    version |-> VersionAfter(recs)])]

\* C17: pinning is best-effort: once the payload is stored, the request
\* goes on through fetching, change detection, versioning and persisting
\* and ends with the same response status and the same collection whether
\* the pin succeeded or failed; a failed pin only leaves the payload
\* unpinned.
C17_PinFailureChangesNothing ==
    [][(/\ variant = "ipfs"
        /\ lastReq'.route = "POST /api/deploy"
        /\ ReachesUpload(lastReq'.body)
        /\ lastReq'.env.uploadOk)
       => /\ lastResp'.status
               = OutcomeAfterUpload(store, lastReq'.body, lastReq'.env.saveOk).status
          /\ store'
               = OutcomeAfterUpload(store, lastReq'.body, lastReq'.env.saveOk).store
          /\ ipfs' = ipfs \cup {FingerprintOf(lastReq'.body.contractCode)}
          /\ ~lastReq'.env.pinOk => pinned' = pinned
      ]_vars

\* C17 witness: a deployment whose pin failed was answered 201; its payload
\* is stored and not pinned
C17_Witness ==
    /\ variant = "ipfs"
    /\ lastReq.route = "POST /api/deploy"
    /\ lastReq.env = PinFails
    /\ lastResp.status = 201
    /\ store[Len(store)].contractCodeHash \in ipfs \ pinned

\* the request gets as far as inserting a record: its body is well-formed,
\* its payload is stored (where payloads are stored), and it is not
\* rejected as no-change
ReachesSave(st, req) ==
    /\ req.body \in ValidBodies
    /\ variant = "ipfs" => req.env.uploadOk
    /\ LET recs == RecordsOf(st, IdentityOf(req.body))
       IN  \/ variant = "paginated"
           \/ recs = <<>>
           \/ Fingerprint(recs[Len(recs)]) # FingerprintOf(req.body.contractCode)

\* C18: when the insert of the new record fails, the request ends in a
\* failure, never in a success response; the collection is unchanged, so
\* the latest record and version of the identity are those from before;
\* the payload stored for the request stays stored (and pinned, if the pin
\* succeeded): nothing is deleted or unpinned.
C18_SaveFailureKeepsPayload ==
    [][(/\ lastReq'.route = "POST /api/deploy"
        /\ ~lastReq'.env.saveOk
        /\ ReachesSave(store, lastReq'))
       => /\ lastResp'.status = 500
          /\ lastResp'.data = NoData
          /\ store' = store
          /\ ipfs \subseteq ipfs'
          /\ pinned \subseteq pinned'
          /\ variant = "ipfs" =>
                /\ FingerprintOf(lastReq'.body.contractCode) \in ipfs'
                /\ lastReq'.env.pinOk =>
                      FingerprintOf(lastReq'.body.contractCode) \in pinned'
      ]_vars

\* C18 witness: the insert has failed; the payload of the request is
\* stored and pinned, and no record refers to it
C18_Witness ==
    /\ variant = "ipfs"
    /\ lastReq.route = "POST /api/deploy"
    /\ lastReq.env = SaveFails
    /\ lastResp.status = 500
    /\ FingerprintOf(lastReq.body.contractCode) \in ipfs \cap pinned
    /\ \A i \in 1..Len(store) :
          store[i].contractCodeHash # FingerprintOf(lastReq.body.contractCode)

-----------------------------------------------------------------------------
(* Properties of the read flow *)

HistoryRoute == "GET /api/deployments/:walletAddress/:repo"

\* path parameters that name an identity: a well-formed owner and a
\* repository name that is not blank
NamesIdentity(params) ==
    \E t \in ValidTargets \cup {<<W1, R2>>} : params = Params(t[1], t[2])

\* the identity the path parameters name
ListedIdentity(params) ==
    <<toLowerCase(params.walletAddress.s), trim(params.repo.s)>>

\* C19: the history listing of an identity that has no record is answered
\* 404 and never 200 with an empty list; once the identity has a record it
\* is answered 200.
C19_EmptyHistoryIsNotFound ==
    [][(lastReq'.route = HistoryRoute /\ NamesIdentity(lastReq'.body.params))
          => IF RecordsOf(store, ListedIdentity(lastReq'.body.params)) = <<>>
             THEN lastResp'.status = 404
             ELSE lastResp'.status = 200]_vars

\* both cases happen: an identity without records is listed while its owner
\* has records under another name, and an identity with records is listed
C19_Witness ==
    /\ lastReq.route = HistoryRoute
    /\ lastReq.body.params = Params(W1, R2)
    /\ lastResp.status = 404
    /\ RecordsOf(store, <<W1, R1>>) # <<>>
    /\ RecordsOf(store, <<W2, R1>>) # <<>>

\* the change detector of the variant, on the fingerprints of two records
ChangeDetector(before, after) ==
    IF variant = "ipfs"
    THEN hasContractCodeChanged_ipfs(before.contractCodeHash, after.contractCodeHash)
    ELSE hasContractCodeChanged(before.contractCode, after.contractCode)

\* the records of the same repository saved before the one at position i
Predecessors(i) ==
    {j \in RepoRecords(store, store[i].walletAddress, store[i].contractRepoName) :
        j < i}

\* the flag of the record at position i: the detector on its immediate
\* chronological predecessor and itself, true when it has none
ChangedFlag(i) ==
    IF Predecessors(i) = {} THEN TRUE
    ELSE ChangeDetector(store[Max(Predecessors(i))], store[i])

\* a history listing with change annotations was just answered
HistoryListed ==
    /\ lastReq.route = HistoryRoute
    /\ variant \in {"embedded", "ipfs"}
    /\ lastResp.status = 200

OwnerRoute == "GET /api/deployments/:walletAddress"

\* the owner's listing was just answered with a summary
OwnerListed ==
    /\ lastReq.route = OwnerRoute
    /\ lastResp.status = 200
    /\ lastResp.message = "Deployments retrieved successfully"

\* the positions of the records of the listed owner, and of one of its
\* repositories
OwnerRecords ==
    {i \in 1..Len(store) :
        store[i].walletAddress = toLowerCase(lastReq.body.params.walletAddress.s)}

OwnerRepoRecords(r) == {i \in OwnerRecords : store[i].contractRepoName = r}

\* v is the version of the chronologically latest record of repository r of
\* the listed owner, and no record of r has a greater version under the
\* numeric comparison
IsLatestVersion(r, v) ==
    /\ v = store[Max(OwnerRepoRecords(r))].version
    /\ \A i \in OwnerRepoRecords(r) :
          compareVersions(JStr(store[i].version), JStr(v)).val <= 0

PageListed ==
    /\ variant = "paginated"
    /\ lastReq.route \in {OwnerRoute, HistoryRoute}
    /\ lastResp.status = 200

\* the query value is a number: an optional sign, then a digit
IsNumeric(v) ==
    /\ v.t = "string"
    /\ \/ Len(v.s) >= 1 /\ IsDigit(v.s[1])
       \/ Len(v.s) >= 2 /\ v.s[1] \in {"-", "+"} /\ IsDigit(v.s[2])

\* C22: for every limit and offset of a paginated listing the effective
\* limit is in 1..100, and 50 when the parameter is absent or not a number;
\* the effective offset is at least 0; at most limit records are returned;
\* and hasMore is true exactly when total > offset + limit, that is when
\* there are records beyond the returned page.
C22_PaginationWithinBounds ==
    PageListed =>
        LET pagination == lastResp.data.pagination
            returned == Len(lastResp.data.deployments)
        IN  /\ pagination.limit \in 1..100
            /\ ~IsNumeric(lastReq.body.query.limit) => pagination.limit = 50
            /\ pagination.offset >= 0
            /\ returned <= pagination.limit
            /\ pagination.hasMore
                 = (pagination.total > pagination.offset + pagination.limit)
            /\ pagination.hasMore
                 = (pagination.total > pagination.offset + returned)

-----------------------------------------------------------------------------
(* Properties of the identity of a deployment *)

\* the submission spells its owner or its repository name differently from
\* the stored form
OtherSpelling(body) ==
    \/ body.walletAddress.s # toLowerCase(body.walletAddress.s)
    \/ body.contractRepoName.s # trim(body.contractRepoName.s)

\* every stored record carries the owner in lowercase and the repository
\* name trimmed
StoredCanonical ==
    \A i \in 1..Len(store) :
        /\ store[i].walletAddress = toLowerCase(store[i].walletAddress)
        /\ store[i].contractRepoName = trim(store[i].contractRepoName)

\* C23: the storage key is the canonical identity. Every stored record
\* carries the lowercase owner and the trimmed repository name, and a
\* submission that spells the owner in other letter case or the name with
\* surrounding whitespace addresses the history of the canonical identity:
\* it is change-checked against the latest record of that history (rejected
\* when its payload is the same) and otherwise versioned after it.
C23_CanonicalIdentityIsTheKey ==
    /\ []StoredCanonical
    /\ [][(ServedValid(lastReq') /\ OtherSpelling(lastReq'.body)) =>
             LET id == IdentityOf(lastReq'.body)
                 before == RecordsOf(store, id)
                 after == RecordsOf(store', id)
                 candidate == FingerprintOf(lastReq'.body.contractCode)
             IN  IF before # <<>> /\ Fingerprint(before[Len(before)]) = candidate
                 THEN /\ lastResp' = NothingToCommit
                      /\ store' = store
                 ELSE /\ lastResp'.status = 201
                      /\ Len(store') = Len(store) + 1
                      /\ Len(after) = Len(before) + 1
                      /\ after[Len(after)].version = VersionAfter(before)
                      /\ lastResp'.data.version = VersionAfter(before)
         ]_vars

\* the same without the change check: a submission in another spelling is
\* either rejected or versioned after the latest record of the canonical
\* identity
CanonicalVersioning ==
    /\ []StoredCanonical
    /\ [][(ServedValid(lastReq') /\ OtherSpelling(lastReq'.body)
              /\ lastResp'.status = 201) =>
             LET id == IdentityOf(lastReq'.body)
                 before == RecordsOf(store, id)
                 after == RecordsOf(store', id)
             IN  /\ Len(after) = Len(before) + 1
                 /\ after[Len(after)].version = VersionAfter(before)
         ]_vars

-----------------------------------------------------------------------------
(* Properties of the collection as a whole *)

ReadRoutes ==
    {HistoryRoute, OwnerRoute, "GET /api/deployment/:id",
     "GET /api/stats/:walletAddress"}

\* C24: the collection is append-only. Whatever request is served, every
\* record that was in the collection is still there, at its place and
\* unchanged; the collection grows only by a deployment that is answered
\* 201, and then by exactly one record; every read request (the listings,
\* the statistics, the fetch by id, the fetch of the payloads) leaves it as
\* it was.
C24_StoreIsAppendOnly ==
    [][/\ Len(store') >= Len(store)
       /\ SubSeq(store', 1, Len(store)) = store
       /\ store' # store =>
             /\ lastReq'.route = DeployRoute
             /\ lastResp'.status = 201
             /\ Len(store') = Len(store) + 1
       /\ (lastReq'.route = DeployRoute /\ lastResp'.status = 201) =>
             Len(store') = Len(store) + 1
       /\ lastReq'.route \in ReadRoutes => store' = store
      ]_vars

\* a read request was just answered from a collection of three records, of
\* which two belong to one repository
C24_Witness ==
    /\ lastReq.route \in ReadRoutes
    /\ lastResp.status = 200
    /\ Len(store) = 3
    /\ \E id \in Identities : Len(RecordsOf(store, id)) = 2

-----------------------------------------------------------------------------
(* Properties of overlapping requests *)

\* the request just served overlapped with the one served before it: both
\* read the latest record of the request's identity before either saved.
\* The collection it read lacks only the last record, which belongs to the
\* same identity and was versioned after the same latest record
ReadSameLatest(req, st) ==
    /\ req.route = DeployRoute
    /\ Len(st) >= 1
    /\ req.seen = Len(st) - 1
    /\ <<st[Len(st)].walletAddress, st[Len(st)].contractRepoName>>
          = IdentityOf(req.body)
    /\ st[Len(st)].version
          = VersionAfter(RecordsOf(SubSeq(st, 1, req.seen), IdentityOf(req.body)))

\* the change detection lets the request pass: the implementation has none,
\* or there was no latest record, or its payload differs
PassesDetection(req, st) ==
    LET read == RecordsOf(SubSeq(st, 1, req.seen), IdentityOf(req.body))
    IN  \/ variant = "paginated"
        \/ read = <<>>
        \/ Fingerprint(read[Len(read)]) # FingerprintOf(req.body.contractCode)

\* C25: of two deployment requests for one identity that both read the same
\* latest record before either saves, the second to save computes the version
\* the first was given, and its record is saved with that same version:
\* neither the handler nor the collection refuses the second write.
C25_RaceDuplicatesVersion ==
    [][(ReadSameLatest(lastReq', store) /\ PassesDetection(lastReq', store)) =>
          /\ lastResp'.status = 201
          /\ lastResp'.data.version = store[Len(store)].version
          /\ Len(store') = Len(store) + 1
          /\ SubSeq(store', 1, Len(store)) = store
          /\ store'[Len(store')].version = store[Len(store)].version
          /\ <<store'[Len(store')].walletAddress,
               store'[Len(store')].contractRepoName>> = IdentityOf(lastReq'.body)
      ]_vars

\* two requests read the record 0.1.0 and both saved 0.1.1
C25_Witness ==
    /\ lastReq.route = DeployRoute
    /\ lastResp.status = 201
    /\ Len(store) = 3
    /\ lastReq.seen = 1
    /\ store[1].version = Baseline
    /\ store[2].version = VersionText(<<0, 1, 1>>)
    /\ store[3].version = VersionText(<<0, 1, 1>>)

-----------------------------------------------------------------------------
(* Properties of the separation of identities *)

\* the versions of an identity's records run 0.1.0, 0.1.1, ... in the order
\* the records were saved, whatever was saved for other identities between
OwnSequence(id) ==
    \A k \in 1..Len(RecordsOf(store, id)) :
        RecordsOf(store, id)[k].version = VersionText(<<0, 1, k - 1>>)

\* whether the handler lets the payload pass, told from the identity's own
\* records alone
AcceptedOnOwnRecords(body) ==
    LET own == RecordsOf(store, IdentityOf(body))
    IN  \/ variant = "paginated"
        \/ own = <<>>
        \/ Fingerprint(own[Len(own)]) # FingerprintOf(body.contractCode)

\* what the lookups of the handlers return for an identity
LatestLookup(st, id) ==
    <<findLatestVersion(st, id[1], id[2]),
      IF findLatestByRepo(st, id[1], id[2]) = 0 THEN JNull
      ELSE JStr(st[findLatestByRepo(st, id[1], id[2])].version)>>

\* C27: a deployment for one identity changes neither the records nor the
\* latest record nor the next version of any other identity, and whether
\* it is accepted and which version it gets follow from the records of its
\* own identity alone; one repository name under two owners and two names
\* under one owner each have their own version sequence, starting at 0.1.0.
C27_IdentitiesAreIsolated ==
    /\ [](\A id \in IsolationTargets : OwnSequence(id))
    /\ [][lastReq'.route = DeployRoute =>
             /\ \A id \in IsolationTargets \ {IdentityOf(lastReq'.body)} :
                   /\ RecordsOf(store', id) = RecordsOf(store, id)
                   /\ LatestLookup(store', id) = LatestLookup(store, id)
                   /\ calculateNextVersion(LatestLookup(store', id)[1], "undefined")
                        = calculateNextVersion(LatestLookup(store, id)[1], "undefined")
             /\ IF AcceptedOnOwnRecords(lastReq'.body)
                THEN /\ lastResp'.status = 201
                     /\ Len(store') = Len(store) + 1
                     /\ store'[Len(store')].version
                          = VersionAfter(RecordsOf(store, IdentityOf(lastReq'.body)))
                ELSE lastResp'.status = 400 /\ store' = store
         ]_vars

\* two records of one repository, between them and after them the first
\* record of the same name under another owner and of another name under the
\* same owner
C27_Witness ==
    /\ Len(store) = 4
    /\ lastResp.status = 201
    /\ <<store[1].walletAddress, store[1].contractRepoName>> = <<W1, R1>>
    /\ <<store[2].walletAddress, store[2].contractRepoName>> = <<W2, R1>>
    /\ <<store[3].walletAddress, store[3].contractRepoName>> = <<W1, R1>>
    /\ <<store[4].walletAddress, store[4].contractRepoName>> = <<W1, R2>>
    /\ store[3].version = VersionText(<<0, 1, 1>>)
    /\ store[4].version = Baseline
    /\ Fingerprint(store[4]) = Fingerprint(store[3])

-----------------------------------------------------------------------------
(* Properties of the course of one deployment request *)

\* the phases of the deployment state machine, in order
MainPath == <<"Validating", "Fetching", "Detecting", "Versioning", "Persisting">>

\* the phases a request has been at, the upload to the payload store left out
NamedPath(req) == SelectSeq(req.path, LAMBDA ph : ph # "Uploading")

IsPrefix(p, q) == Len(p) <= Len(q) /\ SubSeq(q, 1, Len(p)) = p

\* the request went through the phases in order, and ended, if it has, where
\* the state machine lets it end: rejected after detecting, completed after
\* persisting, with an error anywhere
FollowsStateMachine(req) ==
    LET named == NamedPath(req)
        ended == req.phase \in TerminalPhases
        main == IF ended THEN SubSeq(named, 1, Len(named) - 1) ELSE named
    IN  /\ IsPrefix(main, MainPath)
        /\ req.phase = "Rejected" => main = SubSeq(MainPath, 1, 3)
        /\ req.phase = "Completed" => main = MainPath

\* a response is sent exactly when the handler ends, and only one
OneResponse(req) ==
    /\ req.responses = (IF req.phase \in TerminalPhases THEN 1 ELSE 0)
    /\ (lastResp # NoResponse) = (req.phase \in TerminalPhases)
    /\ req.phase = "Completed" => lastResp.status = 201
    /\ req.phase = "Rejected" => lastResp = NothingToCommit
    /\ req.phase = "ValidationError" => lastResp.status = 400
    /\ req.phase = "Failed" => lastResp.status = 500

\* a request is being served and its handler has not ended
InFlight == lastReq # NoRequest /\ lastReq.phase \notin TerminalPhases

Ended == lastReq # NoRequest /\ lastReq.phase \in TerminalPhases

\* a record is saved only by the step that ends in Completed
PersistedOnlyOnCompletion ==
    [][store' # store =>
          /\ lastReq.phase = "Persisting"
          /\ lastReq'.phase = "Completed"
          /\ store' = Append(store, NewDeployment(lastReq))
          /\ lastResp'.status = 201]_vars

\* every request ends in one of the four outcomes with one response, and a
\* record is saved only on the way to Completed
EveryRequestEnds ==
    /\ [](lastReq # NoRequest => OneResponse(lastReq))
    /\ PersistedOnlyOnCompletion
    /\ InFlight ~> Ended

\* C26: every deployment request goes through Validating, Fetching and
\* Detecting and then is either Rejected or goes on through Versioning and
\* Persisting to Completed; it ends in exactly one of validation error,
\* rejection, failure and completed, with exactly one response, given that
\* every call it awaits returns or fails; a record is saved only on the way
\* that ends in Completed.
C26_RequestFollowsStateMachine ==
    /\ [](lastReq # NoRequest => FollowsStateMachine(lastReq))
    /\ [](lastReq # NoRequest => OneResponse(lastReq))
    /\ PersistedOnlyOnCompletion
    /\ InFlight ~> Ended

\* the same of the two createDeployment handlers alone
CreateDeploymentFollowsStateMachine ==
    [](lastReq # NoRequest /\ variant # "paginated" => FollowsStateMachine(lastReq))

=============================================================================
